---- MODULE Spec2Model ----
(***************************************************************************)
(* anchor-shield: structural extractor, detectors and scanning engine.     *)
(*                                                                         *)
(* Source text is a sequence of lexical chunks (strings).  A chunk stands  *)
(* for the literal text it spells; the character-level facts the code      *)
(* asks of a text (its parentheses, its leading "#[", the words a regular  *)
(* expression looks for) are tabulated per chunk below.  "\n" is the line  *)
(* separator and " " a blank, exactly as in the source text.               *)
(***************************************************************************)
EXTENDS Integers, Sequences, FiniteSets, TLC

VARIABLES
  content,        \* the source text handed to find_blocks and to the detectors
  blocks,         \* result of _find_derive_accounts_structs
  pc,             \* position of the running call
  lines,          \* parse_fields: the body lines read so far (lines[i + 1] is line i)
  struct_start,   \* parse_fields: its struct_start argument
  current_attrs,  \* parse_fields: pending attribute lines
  in_attr,        \* parse_fields: inside a multi-line attribute
  paren_depth,    \* parse_fields: open parenthesis depth
  fields,         \* parse_fields: the fields emitted so far
  det_out,        \* the lists returned by the detector calls made so far
  entry,          \* the engine method called
  target,         \* what its path argument names: a directory, a file, nothing
  files,          \* rs_files with what each holds on disk
  fi,             \* engine: index of the file being scanned
  pi,             \* engine: index of the next pattern to run on it
  all_findings,   \* engine: all_findings
  report,         \* the ScanReport returned, NoReport before
  raised,         \* the (file, pattern) pairs whose scan raised
  hash_seed,      \* string hash seed of the running process
  prev_findings,  \* findings of the previous scan of the same content
  runs,           \* scans of the content completed so far
  path,           \* scan_directory: os.path.abspath(path), as its components
  tree,           \* the directories under path and the file names in each
  walk,           \* os.walk: the directories still to be yielded, in order
  rs_files,       \* scan_directory: rs_files
  api_key,        \* self.api_key is set
  demo_mode,      \* self._demo_mode
  attempt,        \* _call_api: live attempts made by the running call
  delay,          \* _call_api: delay
  sleeps,         \* the time.sleep calls of the running call
  result,         \* what the last call returned or raised
  calls,          \* calls completed on this object
  answers,        \* what the server answered to the attempts of the running call
  finding,        \* generate_exploit: its finding argument
  sem_findings,   \* generate_all: its findings argument
  exploits,       \* generate_all: exploits
  fx,             \* generate_all: index of the finding the loop is at
  rate_limit_remaining,  \* GitHubClient._rate_limit_remaining
  rate_limit_reset       \* GitHubClient._rate_limit_reset, in seconds from now

blockVars == <<content, blocks>>
parseVars == <<lines, struct_start, current_attrs, in_attr, paren_depth, fields>>
engineVars == <<entry, target, files, fi, pi, all_findings, report, raised, hash_seed,
                prev_findings, runs>>
walkVars == <<path, tree, walk, rs_files>>
oracleVars == <<api_key, demo_mode, attempt, delay, sleeps, result, calls, answers,
                finding>>
synthVars == <<sem_findings, exploits, fx>>
clientVars == <<rate_limit_remaining, rate_limit_reset>>
vars == <<content, blocks, pc, lines, struct_start, current_attrs, in_attr,
          paren_depth, fields, det_out, entry, target, files, fi, pi, all_findings,
          report, raised, hash_seed, prev_findings, runs,
          path, tree, walk, rs_files,
          api_key, demo_mode, attempt, delay, sleeps, result, calls, answers, finding,
          sem_findings, exploits, fx, rate_limit_remaining, rate_limit_reset>>

(***************************************************************************)
(* Bounds                                                                  *)
(***************************************************************************)
MaxContent == 7
MaxLines == 6
MaxMixedLines == 4
MaxAttrLines == 3
MaxDamaged == 5
MaxFindings == 4
MaxFiles == 2
MaxRaises == 1
MaxRuns == 2
MaxBodyLines == 4
\* body lines of the two blocks given to Detector B
MaxPairLines == 5
\* directories under the scanned root
MaxDirs == 2
\* calls made on one analyzer
MaxCalls == 2
\* findings handed to generate_all
MaxInput == 2
\* distance in lines between a flagged attribute and a constraint
MaxDistance == 32
MaxReach == 12
MaxRequests == 3

(***************************************************************************)
(* Lexical chunks                                                          *)
(***************************************************************************)
NL == "\n"
SP == " "
MARKER == "#[derive(Accounts)]"
OPEN_BRACE == "{"
CLOSE_BRACE == "}"

HeaderName(tok) ==
  CASE tok = "pub struct A" -> "A"
    [] tok = "pub struct B" -> "B"
    [] OTHER -> ""

IsHeader(tok) == HeaderName(tok) # ""

LOOKAHEAD == 500

\* chunks that begin with "#["
AttrStartChunks == {MARKER, "#[account("}
\* chunks that begin with "///"
DocChunks == {"/// CHECK: safe", "/// doc", "/// the signer"}
\* chunks that begin with "//" and not with "///"
CommentChunks ==
  {"// note", "// TODO: fix", "// payer: Signer<'info>", "// payer: AccountInfo<'info>"}

\* str.count("(") and str.count(")") of a chunk
OpenParens(tok) ==
  CASE tok \in {MARKER, "#[account(", "constraint = t.delegate.is_none()",
                "constraint = t.close_authority.is_none()"} -> 1
    [] tok = "constraint = f(g(h(x)))" -> 3
    [] OTHER -> 0

CloseParens(tok) ==
  CASE tok \in {MARKER, ")]", "constraint = t.delegate.is_none()",
                "constraint = t.close_authority.is_none()"} -> 1
    [] tok = "constraint = f(g(h(x)))" -> 3
    [] OTHER -> 0

\* the field-declaration shape  (?:pub\s+)?(\w+)\s*:\s*(.+?)(?:,\s*)?$  inside
\* one chunk: group 1, the empty string when the chunk has no such shape
ColonName(tok) ==
  CASE tok = "data: AccountInfo<'info>" -> "data"
    [] tok = "data: UncheckedAccount<'info>" -> "data"
    [] tok = "my_program: AccountInfo<'info>" -> "my_program"
    [] tok = "token_program: UncheckedAccount<'info>" -> "token_program"
    [] tok = "system_program: AccountInfo<'info>" -> "system_program"
    [] tok = "payer: AccountInfo<'info>" -> "payer"
    [] tok = "payer: Signer<'info>" -> "payer"
    [] tok = "// payer: Signer<'info>" -> "payer"
    [] tok = "// payer: AccountInfo<'info>" -> "payer"
    [] tok = "realloc::payer = funder" -> "realloc"
    [] tok = "vault: Account<'info, Vault>" -> "vault"
    [] tok = "pool: Account<'info, Vault>" -> "pool"
    [] tok = "mint: InterfaceAccount<'info, Vault>" -> "mint"
    [] tok = "stake: Account<'info, Stake>" -> "stake"
    [] tok = "old_stake: Account<'info, Stake>" -> "old_stake"
    [] tok = "token::mint = m" -> "token"
    [] tok = "associated_token::mint = m" -> "associated_token"
    [] tok = "realloc::payer = payer" -> "realloc"
    [] tok = "oracle: UncheckedAccount<'info>" -> "oracle"
    [] tok = "// TODO: fix" -> "TODO"
    [] tok = "/// CHECK: safe" -> "CHECK"
    [] OTHER -> ""

\* group 2 of the same shape: what follows the colon inside the chunk
ColonRest(tok) ==
  CASE tok \in {"data: AccountInfo<'info>", "system_program: AccountInfo<'info>",
                "payer: AccountInfo<'info>", "// payer: AccountInfo<'info>",
                "my_program: AccountInfo<'info>"}
         -> "AccountInfo<'info>"
    [] tok \in {"payer: Signer<'info>", "// payer: Signer<'info>"} -> "Signer<'info>"
    [] tok = "realloc::payer = funder" -> ":payer = funder"
    [] tok \in {"vault: Account<'info, Vault>", "pool: Account<'info, Vault>"}
         -> "Account<'info, Vault>"
    [] tok \in {"stake: Account<'info, Stake>", "old_stake: Account<'info, Stake>"}
         -> "Account<'info, Stake>"
    [] tok = "mint: InterfaceAccount<'info, Vault>" -> "InterfaceAccount<'info, Vault>"
    [] tok \in {"token::mint = m", "associated_token::mint = m"} -> ":mint = m"
    [] tok = "realloc::payer = payer" -> ":payer = payer"
    [] tok \in {"oracle: UncheckedAccount<'info>", "data: UncheckedAccount<'info>",
                "token_program: UncheckedAccount<'info>"} -> "UncheckedAccount<'info>"
    [] tok = "// TODO: fix" -> "fix"
    [] tok = "/// CHECK: safe" -> "safe"
    [] OTHER -> ""

ATTR_OPEN == "#[account("
ATTR_CLOSE == ")]"

\* deepest parenthesis nesting reached inside a chunk
ParenPeak(tok) ==
  CASE tok \in {MARKER, ATTR_OPEN, "constraint = t.delegate.is_none()",
                "constraint = t.close_authority.is_none()"} -> 1
    [] tok = "constraint = f(g(h(x)))" -> 3
    [] OTHER -> 0

\* what the detectors' regular expressions find inside one chunk
HasInitIfNeeded(tok) == tok = "init_if_needed"                   \* init_if_needed
HasMutWord(tok) == tok = "mut"                                    \* \bmut\b
HasCloseEq(tok) == tok = "close = dest"                           \* \bclose\s*=
HasSignerWord(tok) == tok \in {"signer", "/// the signer"}           \* \bsigner\b
HasOwnerCheck(tok) == tok = "owner = crate::ID"                   \* owner\s*=|...
HasCheckComment(tok) == tok = "/// CHECK: safe"                   \* ///\s*CHECK\s*:
HasTokenNs(tok) ==                                                \* token\s*::
  tok \in {"token::mint = m", "associated_token::mint = m"}
HasAssocTokenNs(tok) == tok = "associated_token::mint = m"        \* associated_token\s*::
HasDelegateCheck(tok) == tok = "constraint = t.delegate.is_none()"
HasCloseAuthCheck(tok) == tok = "constraint = t.close_authority.is_none()"

\* REALLOC_PAYER_RE group 1, the empty string when the chunk has no match
ReallocPayer(tok) ==
  CASE tok = "realloc::payer = payer" -> "payer"
    [] tok = "realloc::payer = funder" -> "funder"
    [] OTHER -> ""

\* Account\s*<\s*'[^,]+,\s*(\w+)  on a type: group 1 or the empty string
BaseTypeOf(tok) ==
  CASE tok \in {"Account<'info, Vault>", "InterfaceAccount<'info, Vault>"} -> "Vault"
    [] tok = "Account<'info, Stake>" -> "Stake"
    [] OTHER -> ""

\* Signer\s*<  on a type
IsSignerType(tok) == tok = "Signer<'info>"

\* (\w+)\s*:\s*AccountInfo\s*<  and  (\w+)\s*:\s*UncheckedAccount\s*<
IsAccountInfoDecl(tok) ==
  tok \in {"data: AccountInfo<'info>", "system_program: AccountInfo<'info>",
           "payer: AccountInfo<'info>", "// payer: AccountInfo<'info>",
           "my_program: AccountInfo<'info>"}
IsUncheckedDecl(tok) ==
  tok \in {"oracle: UncheckedAccount<'info>", "data: UncheckedAccount<'info>",
           "token_program: UncheckedAccount<'info>"}

\* field_name.lower().rstrip("_")
LowerRStrip(name) ==
  CASE name = "Rent_" -> "rent"
    [] OTHER -> name

\* field_name.endswith("_program")
EndsWithProgramNever(name) == FALSE

EndsWithProgram(name) == name \in {"system_program", "token_program", "my_program"}

(***************************************************************************)
(* Generic sequence helpers                                                *)
(***************************************************************************)
Min(a, b) == IF a < b THEN a ELSE b
Max(a, b) == IF a > b THEN a ELSE b

SeqsUpTo(S, n) == UNION {[1..k -> S] : k \in 0..n}

\* content[:pos].count("\n") + 1   (pos = number of chunks before the place)
get_line_number(text, pos) ==
  Cardinality({k \in 1..Min(pos, Len(text)) : text[k] = NL}) + 1

(***************************************************************************)
(* _find_derive_accounts_structs                                           *)
(***************************************************************************)
\* the while loop of the brace counter: i is the next index to read
RECURSIVE BraceScan(_, _, _)
BraceScanFirstClose(text, i, depth) ==
  IF i <= Len(text) /\ depth > 0
  THEN BraceScan(text, i + 1, IF text[i] = CLOSE_BRACE THEN depth - 1 ELSE depth)
  ELSE [i |-> i, depth |-> depth]

BraceScan(text, i, depth) ==
  IF i <= Len(text) /\ depth > 0
  THEN BraceScan(text, i + 1,
                 IF text[i] = OPEN_BRACE THEN depth + 1
                 ELSE IF text[i] = CLOSE_BRACE THEN depth - 1
                 ELSE depth)
  ELSE [i |-> i, depth |-> depth]

\* re.search of the header in content[pos:pos+500]: index of the first header
\* chunk of the window, 0 when there is none
StructMatch(text, m) ==
  LET window == {h \in (m + 1)..Min(Len(text), m + LOOKAHEAD) : IsHeader(text[h])}
  IN IF window = {} THEN 0 ELSE CHOOSE h \in window : \A g \in window : h <= g

\* content.find("{", pos + struct_match.end()): 0 when there is none
BraceStart(text, h) ==
  LET opens == {b \in (h + 1)..Len(text) : text[b] = OPEN_BRACE}
  IN IF opens = {} THEN 0 ELSE CHOOSE b \in opens : \A c \in opens : b <= c

BlockAtUnclosed(text, m) ==
  LET h == StructMatch(text, m)
      b == IF h = 0 THEN 0 ELSE BraceStart(text, h)
      scan == BraceScan(text, b + 1, 1)
  IN IF h = 0 \/ b = 0 THEN <<>>
     ELSE << [name |-> HeaderName(text[h]),
              body |-> SubSeq(text, b + 1, scan.i - 2),
              start_line |-> get_line_number(text, m - 1)] >>

\* the body of the for loop, for the marker at index m: the results to append
BlockAt(text, m) ==
  LET h == StructMatch(text, m)
      b == IF h = 0 THEN 0 ELSE BraceStart(text, h)
      scan == BraceScan(text, b + 1, 1)
  IN IF h = 0 \/ b = 0 THEN <<>>
     ELSE IF scan.depth = 0
          THEN << [name |-> HeaderName(text[h]),
                   body |-> SubSeq(text, b + 1, scan.i - 2),
                   start_line |-> get_line_number(text, m - 1)] >>
          ELSE <<>>

RECURSIVE FindFrom(_, _)
FindFrom(text, m) ==
  IF m > Len(text) THEN <<>>
  ELSE (IF text[m] = MARKER THEN BlockAt(text, m) ELSE <<>>) \o FindFrom(text, m + 1)

find_derive_accounts_structs(text) == FindFrom(text, 1)

(***************************************************************************)
(* _parse_struct_fields                                                    *)
(***************************************************************************)
\* stripped.count("(") and stripped.count(")")
RECURSIVE CountOpen(_)
CountOpen(line) ==
  IF line = <<>> THEN 0 ELSE OpenParens(Head(line)) + CountOpen(Tail(line))

RECURSIVE CountClose(_)
CountClose(line) ==
  IF line = <<>> THEN 0 ELSE CloseParens(Head(line)) + CountClose(Tail(line))

\* str.strip(): drop the blanks at both ends of a line
RECURSIVE LStrip(_)
LStrip(line) ==
  IF line # <<>> /\ Head(line) = SP THEN LStrip(Tail(line)) ELSE line

RECURSIVE RStrip(_)
RStrip(line) ==
  IF line # <<>> /\ line[Len(line)] = SP
  THEN RStrip(SubSeq(line, 1, Len(line) - 1)) ELSE line

Strip(line) == RStrip(LStrip(line))

\* str.split("\n")
RECURSIVE SplitLines(_)
SplitLines(text) ==
  LET nls == {k \in 1..Len(text) : text[k] = NL}
  IN IF nls = {} THEN << text >>
     ELSE LET k == CHOOSE n \in nls : \A o \in nls : n <= o
          IN << SubSeq(text, 1, k - 1) >> \o SplitLines(SubSeq(text, k + 1, Len(text)))

\* " ".join(list of lines)
RECURSIVE JoinLines(_)
JoinLines(ls) ==
  IF ls = <<>> THEN <<>>
  ELSE IF Len(ls) = 1 THEN ls[1]
  ELSE ls[1] \o << SP >> \o JoinLines(Tail(ls))

StartsWithDoc(stripped) == stripped # <<>> /\ stripped[1] \in DocChunks
StartsWithAttr(stripped) == stripped # <<>> /\ stripped[1] \in AttrStartChunks
\* startswith("//") is also true of a "///" line
StartsWithComment(stripped) ==
  stripped # <<>> /\ stripped[1] \in (CommentChunks \cup DocChunks)

ParenDelta(stripped) == CountOpen(stripped) - CountClose(stripped)

\* re.search of the field shape in the stripped line: index of the first chunk
\* that has the shape, 0 when the line has none
FieldMatch(stripped) ==
  LET hits == {k \in 1..Len(stripped) : ColonName(stripped[k]) # ""}
  IN IF hits = {} THEN 0 ELSE CHOOSE k \in hits : \A j \in hits : k <= j

\* group(2).strip().rstrip(","): the rest of the line after the colon
FieldType(stripped, k) ==
  LET last == IF stripped[Len(stripped)] = "," THEN Len(stripped) - 1 ELSE Len(stripped)
  IN << ColonRest(stripped[k]) >> \o SubSeq(stripped, k + 1, last)

\* one iteration of the for loop: st is the loop state, i the enumerate index
ParseLineNoMultiline(st, line, i, start) ==
  LET stripped == Strip(line)
      k == FieldMatch(stripped)
  IN IF StartsWithDoc(stripped)
     THEN [st EXCEPT !.current_attrs = Append(@, stripped)]
     ELSE IF StartsWithAttr(stripped)
     THEN [st EXCEPT !.current_attrs = Append(@, stripped),
                     !.paren_depth = ParenDelta(stripped)]
     ELSE IF k # 0
     THEN [st EXCEPT !.fields = Append(@, [name |-> ColonName(stripped[k]),
                                          type |-> FieldType(stripped, k),
                                          line |-> start + i + 1,
                                          attrs |-> JoinLines(st.current_attrs)]),
                     !.current_attrs = <<>>]
     ELSE IF stripped # <<>> /\ ~StartsWithComment(stripped)
     THEN [st EXCEPT !.current_attrs = <<>>]
     ELSE st

ParseLineNoReset(st, line, i, start) ==
  LET stripped == Strip(line)
      k == FieldMatch(stripped)
  IN IF StartsWithDoc(stripped)
     THEN [st EXCEPT !.current_attrs = Append(@, stripped)]
     ELSE IF st.in_attr
     THEN LET d == st.paren_depth + ParenDelta(stripped)
          IN [st EXCEPT !.current_attrs = Append(@, stripped),
                        !.paren_depth = IF d <= 0 THEN 0 ELSE d,
                        !.in_attr = ~(d <= 0)]
     ELSE IF StartsWithAttr(stripped)
     THEN LET d == ParenDelta(stripped)
          IN [st EXCEPT !.current_attrs = Append(@, stripped),
                        !.paren_depth = d,
                        !.in_attr = IF d > 0 THEN TRUE ELSE @]
     ELSE IF k # 0
     THEN [st EXCEPT !.fields = Append(@, [name |-> ColonName(stripped[k]),
                                          type |-> FieldType(stripped, k),
                                          line |-> start + i + 1,
                                          attrs |-> JoinLines(st.current_attrs)]),
                     !.current_attrs = <<>>]
     ELSE st

ParseLine(st, line, i, start) ==
  LET stripped == Strip(line)
      k == FieldMatch(stripped)
  IN IF StartsWithDoc(stripped)
     THEN [st EXCEPT !.current_attrs = Append(@, stripped)]
     ELSE IF st.in_attr
     THEN LET d == st.paren_depth + ParenDelta(stripped)
          IN [st EXCEPT !.current_attrs = Append(@, stripped),
                        !.paren_depth = IF d <= 0 THEN 0 ELSE d,
                        !.in_attr = ~(d <= 0)]
     ELSE IF StartsWithAttr(stripped)
     THEN LET d == ParenDelta(stripped)
          IN [st EXCEPT !.current_attrs = Append(@, stripped),
                        !.paren_depth = d,
                        !.in_attr = IF d > 0 THEN TRUE ELSE @]
     ELSE IF k # 0
     THEN [st EXCEPT !.fields = Append(@, [name |-> ColonName(stripped[k]),
                                          type |-> FieldType(stripped, k),
                                          line |-> start + i + 1,
                                          attrs |-> JoinLines(st.current_attrs)]),
                     !.current_attrs = <<>>]
     ELSE IF stripped # <<>> /\ ~StartsWithComment(stripped)
     THEN [st EXCEPT !.current_attrs = <<>>]
     ELSE st

ParseStart ==
  [current_attrs |-> <<>>, in_attr |-> FALSE, paren_depth |-> 0, fields |-> <<>>]

RECURSIVE ParseFrom(_, _, _, _)
ParseFrom(st, ls, i, start) ==
  IF i >= Len(ls) THEN st
  ELSE ParseFrom(ParseLine(st, ls[i + 1], i, start), ls, i + 1, start)

parse_struct_fields(struct_body, start) ==
  ParseFrom(ParseStart, SplitLines(struct_body), 0, start).fields

(***************************************************************************)
(* Detectors                                                               *)
(***************************************************************************)
RECURSIVE Flatten(_)
Flatten(ss) == IF ss = <<>> THEN <<>> ELSE Head(ss) \o Flatten(Tail(ss))

AnyChunk(text, P(_)) == \E k \in 1..Len(text) : P(text[k])

Finding(id, severity, file_path, line) ==
  [id |-> id, severity |-> severity, file |-> file_path, line |-> line]

\* ---- ANCHOR-001, InitIfNeededPattern --------------------------------------
MAX_NESTED_PARENS == 2
CONTEXT_LINES == 30

\* ACCOUNT_ATTR_RE from the chunk after "#[account(": the index of the ")]"
\* that ends the match, 0 when the expression does not match.  The expression
\* spells out MAX_NESTED_PARENS levels of parentheses inside the attribute.
RECURSIVE AttrScan(_, _, _)
AttrScan(text, i, depth) ==
  IF i > Len(text) THEN 0
  ELSE IF text[i] = ATTR_CLOSE
       THEN IF depth = 0 THEN i ELSE AttrScan(text, i + 1, depth - 1)
  ELSE IF depth + ParenPeak(text[i]) > MAX_NESTED_PARENS THEN 0
  ELSE AttrScan(text, i + 1, depth + OpenParens(text[i]) - CloseParens(text[i]))

\* ACCOUNT_ATTR_RE.finditer(content): the matches from index i on
RECURSIVE AttrMatches(_, _)
AttrMatches(text, i) ==
  IF i > Len(text) THEN <<>>
  ELSE IF text[i] = ATTR_OPEN /\ AttrScan(text, i + 1, 0) # 0
       THEN << [start |-> i, end |-> AttrScan(text, i + 1, 0)] >>
              \o AttrMatches(text, AttrScan(text, i + 1, 0) + 1)
  ELSE AttrMatches(text, i + 1)

\* the "\n".join(lines[struct_start:struct_end]) window around line_num
ContextBlock(text, line_num) ==
  LET ls == SplitLines(text)
      first == Max(0, line_num - CONTEXT_LINES)
      last == Min(Len(ls), line_num + CONTEXT_LINES)
  IN Flatten(SubSeq(ls, first + 1, last))

InitIfNeededOne(file_path, text, m) ==
  LET attr_content == SubSeq(text, m.start + 1, m.end - 1)
      is_token == AnyChunk(attr_content, HasTokenNs)
      is_assoc_token == AnyChunk(attr_content, HasAssocTokenNs)
      line_num == get_line_number(text, m.start - 1)
      context_block == ContextBlock(text, line_num)
      has_delegate_check == AnyChunk(context_block, HasDelegateCheck)
      has_close_auth_check == AnyChunk(context_block, HasCloseAuthCheck)
  IN IF ~AnyChunk(attr_content, HasInitIfNeeded) THEN <<>>
     ELSE IF ~is_token /\ ~is_assoc_token THEN <<>>
     ELSE IF has_delegate_check /\ has_close_auth_check THEN <<>>
     ELSE << Finding("ANCHOR-001", "High", file_path, line_num) >>

InitIfNeededScan(file_path, text) ==
  LET ms == AttrMatches(text, 1)
  IN Flatten([k \in 1..Len(ms) |-> InitIfNeededOne(file_path, text, ms[k])])

\* ---- shared by the struct-based detectors --------------------------------
\* _extract_base_type / _extract_account_type of a parsed field type
extract_base_type(type) == IF type = <<>> THEN "" ELSE BaseTypeOf(type[1])

\* str.split(" ")
RECURSIVE SplitWords(_)
SplitWords(text) ==
  LET sps == {k \in 1..Len(text) : text[k] = SP}
  IN IF sps = {} THEN << text >>
     ELSE LET k == CHOOSE n \in sps : \A o \in sps : n <= o
          IN << SubSeq(text, 1, k - 1) >> \o SplitWords(SubSeq(text, k + 1, Len(text)))

\* index of the first chunk of a line satisfying the raw-handle expression
FirstIndex(line, S) == IF S = {} THEN 0 ELSE CHOOSE k \in S : \A j \in S : k <= j
AiMatch(line) == FirstIndex(line, {k \in 1..Len(line) : IsAccountInfoDecl(line[k])})
UcMatch(line) == FirstIndex(line, {k \in 1..Len(line) : IsUncheckedDecl(line[k])})
\* ai_match or uc_match
RawMatch(line) == IF AiMatch(line) # 0 THEN AiMatch(line) ELSE UcMatch(line)

\* ---- ANCHOR-002, DuplicateMutablePattern ----------------------------------
DuplicateMutableBlock(file_path, b) ==
  LET fs == parse_struct_fields(b.body, b.start_line)
      init_if_needed_fields ==
        SelectSeq(fs, LAMBDA f : AnyChunk(f.attrs, HasInitIfNeeded))
      mutable_fields ==
        SelectSeq(fs, LAMBDA f : ~AnyChunk(f.attrs, HasInitIfNeeded)
                                 /\ AnyChunk(f.attrs, HasMutWord))
      Hit(i, m) ==
        /\ extract_base_type(i.type) # ""
        /\ extract_base_type(m.type) # ""
        /\ extract_base_type(i.type) = extract_base_type(m.type)
  IN IF init_if_needed_fields = <<>> \/ mutable_fields = <<>> THEN <<>>
     ELSE Flatten([k \in 1..Len(init_if_needed_fields) |->
            IF \E m \in 1..Len(mutable_fields) :
                 Hit(init_if_needed_fields[k], mutable_fields[m])
            THEN << Finding("ANCHOR-002", "Medium", file_path,
                            init_if_needed_fields[k].line) >>
            ELSE <<>>])

DuplicateMutableScan(file_path, text) ==
  LET bs == find_derive_accounts_structs(text)
  IN Flatten([k \in 1..Len(bs) |-> DuplicateMutableBlock(file_path, bs[k])])

\* ---- ANCHOR-003, ReallocPayerPattern --------------------------------------
\* field_types / field_attrs: the last field of a name wins
LastField(fs, name) ==
  LET hits == {k \in 1..Len(fs) : fs[k].name = name}
  IN IF hits = {} THEN 0 ELSE CHOOSE k \in hits : \A j \in hits : j <= k

\* the space-separated parts of attrs that start with "#["
AccountAttrs(attrs) ==
  JoinLines(SelectSeq(SplitWords(attrs),
                      LAMBDA w : w # <<>> /\ w[1] \in AttrStartChunks))

ReallocPayerOne(file_path, b, fs, m) ==
  LET payer_name == ReallocPayer(b.body[m])
      realloc_line == b.start_line
                        + Cardinality({k \in 1..(m - 1) : b.body[k] = NL}) + 1
      f == LastField(fs, payer_name)
  IN IF f = 0 THEN <<>>
     ELSE IF AnyChunk(fs[f].type, IsSignerType) THEN <<>>
     ELSE IF AnyChunk(AccountAttrs(fs[f].attrs), HasSignerWord) THEN <<>>
     ELSE << Finding("ANCHOR-003", "Medium", file_path, realloc_line) >>

ReallocPayerBlock(file_path, b) ==
  LET fs == parse_struct_fields(b.body, b.start_line)
  IN Flatten([m \in 1..Len(b.body) |->
        IF ReallocPayer(b.body[m]) = "" THEN <<>>
        ELSE ReallocPayerOne(file_path, b, fs, m)])

ReallocPayerScan(file_path, text) ==
  LET bs == find_derive_accounts_structs(text)
  IN Flatten([k \in 1..Len(bs) |-> ReallocPayerBlock(file_path, bs[k])])

\* ---- ANCHOR-004, TypeCosplayPattern ---------------------------------------
SAFE_FIELD_NAMES ==
  {"system_program", "token_program", "rent", "clock", "associated_token_program",
   "authority", "payer", "owner", "signer", "fee_payer", "rent_sysvar"}
COSPLAY_LOOKBACK == 10

TypeCosplayLine(file_path, b, ls, i) ==
  LET line == ls[i + 1]
      k == RawMatch(line)
      field_name == ColonName(line[k])
      context_block == Flatten(SubSeq(ls, Max(0, i - COSPLAY_LOOKBACK) + 1, i + 1))
  IN IF k = 0 THEN <<>>
     ELSE IF LowerRStrip(field_name) \in SAFE_FIELD_NAMES THEN <<>>
     ELSE IF EndsWithProgram(field_name) \/ field_name = "program" THEN <<>>
     ELSE IF AnyChunk(context_block, HasSignerWord) THEN <<>>
     ELSE IF AnyChunk(context_block, HasOwnerCheck) THEN <<>>
     ELSE IF AnyChunk(context_block, HasCheckComment) THEN <<>>
     ELSE << Finding("ANCHOR-004", "Medium", file_path, b.start_line + i + 1) >>

TypeCosplayBlock(file_path, b) ==
  LET ls == SplitLines(b.body)
  IN Flatten([n \in 1..Len(ls) |-> TypeCosplayLine(file_path, b, ls, n - 1)])

TypeCosplayScan(file_path, text) ==
  LET bs == find_derive_accounts_structs(text)
  IN Flatten([k \in 1..Len(bs) |-> TypeCosplayBlock(file_path, bs[k])])

\* ---- ANCHOR-005, CloseReinitPattern ---------------------------------------
\* every (block, field) of the file, in the order the two loops visit them
AllFields(text) ==
  LET bs == find_derive_accounts_structs(text)
  IN Flatten([k \in 1..Len(bs) |-> parse_struct_fields(bs[k].body, bs[k].start_line)])

\* close_types / init_if_needed_types: the last field of a type wins
LastOfType(fs, t, P(_)) ==
  LET hits == {k \in 1..Len(fs) : extract_base_type(fs[k].type) = t /\ AnyChunk(fs[k].attrs, P)}
  IN IF hits = {} THEN 0 ELSE CHOOSE k \in hits : \A j \in hits : j <= k

BaseTypes == {"Vault", "Stake"}

\* iteration order of a set of strings under the hash seed of the process
HashSeeds == {0, 1}
HashOrder(seed) == IF seed = 0 THEN << "Stake", "Vault" >> ELSE << "Vault", "Stake" >>
SetIteration(S, seed) == SelectSeq(HashOrder(seed), LAMBDA t : t \in S)

CloseReinitScan(file_path, text, seed) ==
  LET fs == AllFields(text)
      overlapping == {t \in BaseTypes : /\ LastOfType(fs, t, HasCloseEq) # 0
                                        /\ LastOfType(fs, t, HasInitIfNeeded) # 0}
      order == SetIteration(overlapping, seed)
  IN [k \in 1..Len(order) |->
        Finding("ANCHOR-005", "Medium", file_path,
                fs[LastOfType(fs, order[k], HasInitIfNeeded)].line)]

\* ---- ANCHOR-006, MissingOwnerPattern --------------------------------------
SYSTEM_FIELD_NAMES ==
  {"system_program", "token_program", "rent", "clock", "associated_token_program",
   "sysvar_rent", "sysvar_clock"}

\* the for loop over the body lines from enumerate index i, with its
\* current_attrs list
RECURSIVE MissingOwnerFrom(_, _, _, _, _)
MissingOwnerFrom(file_path, b, ls, i, attrs) ==
  IF i >= Len(ls) THEN <<>>
  ELSE
    LET stripped == Strip(ls[i + 1])
        k == RawMatch(stripped)
        field_name == ColonName(stripped[k])
        attrs_str == JoinLines(attrs)
    IN IF StartsWithAttr(stripped) \/ StartsWithDoc(stripped)
       THEN MissingOwnerFrom(file_path, b, ls, i + 1, Append(attrs, stripped))
       ELSE IF k = 0 THEN MissingOwnerFrom(file_path, b, ls, i + 1, <<>>)
       ELSE (IF \/ LowerRStrip(field_name) \in SYSTEM_FIELD_NAMES
                \/ EndsWithProgram(field_name) \/ field_name = "program"
                \/ AnyChunk(attrs_str, HasSignerWord)
                \/ AnyChunk(attrs_str, HasOwnerCheck)
                \/ AnyChunk(attrs_str, HasCheckComment)
             THEN <<>>
             ELSE << Finding("ANCHOR-006", "High", file_path, b.start_line + i + 1) >>)
            \o MissingOwnerFrom(file_path, b, ls, i + 1, <<>>)

MissingOwnerScan(file_path, text) ==
  LET bs == find_derive_accounts_structs(text)
  IN Flatten([k \in 1..Len(bs) |->
        MissingOwnerFrom(file_path, bs[k], SplitLines(bs[k].body), 0, <<>>)])

\* ---- the registry ---------------------------------------------------------
ALL_PATTERNS ==
  << "ANCHOR-001", "ANCHOR-002", "ANCHOR-003", "ANCHOR-004", "ANCHOR-005", "ANCHOR-006" >>

\* pattern.scan(file_path, content) of the p-th registered pattern
PatternScan(p, file_path, text, seed) ==
  CASE ALL_PATTERNS[p] = "ANCHOR-001" -> InitIfNeededScan(file_path, text)
    [] ALL_PATTERNS[p] = "ANCHOR-002" -> DuplicateMutableScan(file_path, text)
    [] ALL_PATTERNS[p] = "ANCHOR-003" -> ReallocPayerScan(file_path, text)
    [] ALL_PATTERNS[p] = "ANCHOR-004" -> TypeCosplayScan(file_path, text)
    [] ALL_PATTERNS[p] = "ANCHOR-005" -> CloseReinitScan(file_path, text, seed)
    [] ALL_PATTERNS[p] = "ANCHOR-006" -> MissingOwnerScan(file_path, text)

(***************************************************************************)
(* Sample source files                                                     *)
(***************************************************************************)
Lines(ls) ==
  LET RECURSIVE J(_)
      J(x) == IF x = <<>> THEN <<>>
              ELSE IF Len(x) = 1 THEN x[1]
              ELSE x[1] \o << NL >> \o J(Tail(x))
  IN J(ls)

\* one block with a token init_if_needed field, a mutable field of the same
\* base type and a raw handle
SampleWithdraw ==
  Lines(<< << MARKER >>,
           << "pub struct A", SP, OPEN_BRACE >>,
           << SP, ATTR_OPEN, "init_if_needed", ",", SP, "token::mint = m", ATTR_CLOSE >>,
           << SP, "vault: Account<'info, Vault>", "," >>,
           << SP, ATTR_OPEN, "mut", ATTR_CLOSE >>,
           << SP, "pool: Account<'info, Vault>", "," >>,
           << SP, "data: AccountInfo<'info>", "," >>,
           << CLOSE_BRACE >> >>)

\* two blocks: two base types closed in the first and created-if-absent in the
\* second, and a resize directive naming a raw-handle payer
SampleLifecycle ==
  Lines(<< << MARKER >>,
           << "pub struct A", SP, OPEN_BRACE >>,
           << SP, ATTR_OPEN, "mut", ",", SP, "close = dest", ATTR_CLOSE >>,
           << SP, "vault: Account<'info, Vault>", "," >>,
           << SP, ATTR_OPEN, "mut", ",", SP, "close = dest", ATTR_CLOSE >>,
           << SP, "stake: Account<'info, Stake>", "," >>,
           << CLOSE_BRACE >>,
           << MARKER >>,
           << "pub struct B", SP, OPEN_BRACE >>,
           << SP, ATTR_OPEN, "init_if_needed", ATTR_CLOSE >>,
           << SP, "pool: Account<'info, Vault>", "," >>,
           << SP, ATTR_OPEN, "init_if_needed", ",", SP, "realloc::payer = payer", ATTR_CLOSE >>,
           << SP, "old_stake: Account<'info, Stake>", "," >>,
           << SP, "payer: AccountInfo<'info>", "," >>,
           << CLOSE_BRACE >> >>)

\* a block with nothing to report
SampleClean ==
  Lines(<< << MARKER >>,
           << "pub struct A", SP, OPEN_BRACE >>,
           << SP, "payer: Signer<'info>", "," >>,
           << SP, "system_program: AccountInfo<'info>", "," >>,
           << CLOSE_BRACE >> >>)

SampleEmpty == << >>

(***************************************************************************)
(* Specification of parse_fields, one body line per step                   *)
(***************************************************************************)
\* bodies made for multi-line attributes: an attribute opener, a whole
\* one-line attribute, the closing line, a field declaration, a blank line
\* and a doc comment
LineAlphabet ==
  { << "#[account(" >>,
    << "#[account(", "mut", ")]" >>,
    << ")]" >>,
    << "pub", "data: AccountInfo<'info>", "," >>,
    << >>,
    << "/// doc" >> }

\* every kind of line the loop tells apart, on shorter bodies
MixedAlphabet ==
  LineAlphabet \cup
  { << SP, OPEN_BRACE >>,
    << "// note" >>,
    << "// TODO: fix" >> }

NoReport ==
  [target |-> "none", files_scanned |-> 0, patterns_checked |-> 0,
   findings |-> << >>, security_score |-> "A", summary |-> << >>]

SynthIdle ==
  /\ sem_findings = <<>>
  /\ exploits = <<>>
  /\ fx = 0

ClientIdle ==
  /\ rate_limit_remaining = 60
  /\ rate_limit_reset = 0

WalkIdle ==
  /\ path = <<>>
  /\ tree = <<>>
  /\ walk = <<>>
  /\ rs_files = <<>>

NoResult == [kind |-> "none", value |-> <<>>]
NoFinding == [id |-> "", title |-> "", severity |-> ""]

OracleIdle ==
  /\ api_key = FALSE
  /\ demo_mode = FALSE
  /\ attempt = 0
  /\ delay = 0
  /\ sleeps = <<>>
  /\ result = NoResult
  /\ calls = 0
  /\ answers = <<>>
  /\ finding = NoFinding

EngineIdle ==
  /\ det_out = <<>>
  /\ entry = "none"
  /\ target = "none"
  /\ files = <<>>
  /\ fi = 0
  /\ pi = 0
  /\ all_findings = <<>>
  /\ report = NoReport
  /\ raised = {}
  /\ hash_seed = 0
  /\ prev_findings = <<>>
  /\ runs = 0

ParseIdle ==
  /\ lines = <<>>
  /\ struct_start = 1
  /\ current_attrs = <<>>
  /\ in_attr = FALSE
  /\ paren_depth = 0
  /\ fields = <<>>

InitParse ==
  /\ ParseIdle
  /\ EngineIdle
  /\ WalkIdle
  /\ OracleIdle
  /\ SynthIdle
  /\ ClientIdle
  /\ content = <<>>
  /\ blocks = <<>>
  /\ pc = "parse"

ReadLine(line, bound) ==
  /\ pc = "parse"
  /\ Len(lines) < bound
  /\ LET st == ParseLine([current_attrs |-> current_attrs, in_attr |-> in_attr,
                          paren_depth |-> paren_depth, fields |-> fields],
                         line, Len(lines), struct_start)
     IN /\ current_attrs' = st.current_attrs
        /\ in_attr' = st.in_attr
        /\ paren_depth' = st.paren_depth
        /\ fields' = st.fields
  /\ lines' = Append(lines, line)
  /\ UNCHANGED <<blockVars, pc, struct_start, det_out, engineVars, walkVars, oracleVars, synthVars, clientVars>>

NextParse == \E line \in LineAlphabet : ReadLine(line, MaxLines)

SpecParse == InitParse /\ [][NextParse]_vars

NextParseMixed == \E line \in MixedAlphabet : ReadLine(line, MaxMixedLines)

SpecParseMixed == InitParse /\ [][NextParseMixed]_vars

(***************************************************************************)
(* Specification of the structural extractor                               *)
(***************************************************************************)
BlockAlphabet == {MARKER, "pub struct A", OPEN_BRACE, CLOSE_BRACE, "data: AccountInfo<'info>"}

InitBlocks ==
  /\ content \in SeqsUpTo(BlockAlphabet, MaxContent)
  /\ blocks = <<>>
  /\ pc = "start"
  /\ ParseIdle
  /\ EngineIdle
  /\ WalkIdle
  /\ OracleIdle
  /\ SynthIdle
  /\ ClientIdle

FindBlocks ==
  /\ pc = "start"
  /\ blocks' = find_derive_accounts_structs(content)
  /\ pc' = "blocks"
  /\ UNCHANGED <<content, parseVars, det_out, engineVars, walkVars, oracleVars, synthVars, clientVars>>

NextBlocks == FindBlocks

SpecBlocks == InitBlocks /\ [][NextBlocks]_vars

(***************************************************************************)
(* ScanReport, _compute_security_score, _compute_summary                   *)
(***************************************************************************)
\* ScanReport(target, files_scanned, patterns_checked, findings) with the
\* dataclass defaults for the score and the summary
ScanReport(name, scanned, checked, findings) ==
  [target |-> name, files_scanned |-> scanned,
   patterns_checked |-> checked, findings |-> findings,
   security_score |-> "A", summary |-> << >>]

\* severity_weights.get(severity, 0)
severity_weights_Flat(severity) ==
  CASE severity = "Critical" -> 5
    [] severity = "High" -> 5
    [] severity = "Medium" -> 2
    [] severity = "Low" -> 1
    [] OTHER -> 0

severity_weights(severity) ==
  CASE severity = "Critical" -> 10
    [] severity = "High" -> 5
    [] severity = "Medium" -> 2
    [] severity = "Low" -> 1
    [] OTHER -> 0

RECURSIVE SumWeights(_)
SumWeights(findings) ==
  IF findings = <<>> THEN 0
  ELSE severity_weights(Head(findings).severity) + SumWeights(Tail(findings))

compute_security_score(findings) ==
  IF findings = <<>> THEN "A"
  ELSE LET total == SumWeights(findings)
       IN IF total >= 20 THEN "F"
          ELSE IF total >= 15 THEN "D"
          ELSE IF total >= 10 THEN "C"
          ELSE IF total >= 5 THEN "B"
          ELSE "B+"

\* d[key] = d.get(key, 0) + 1
Increment(d, key) ==
  IF key \in DOMAIN d THEN [d EXCEPT ![key] = @ + 1] ELSE d @@ (key :> 1)

by_severity_Empty == << >>

by_severity_Start ==
  ("Critical" :> 0) @@ ("High" :> 0) @@ ("Medium" :> 0) @@ ("Low" :> 0)

\* the loop of _compute_summary over findings[k..]
RECURSIVE SummaryLoop(_, _, _, _)
SummaryLoop(findings, k, by_severity, by_pattern) ==
  IF k > Len(findings)
  THEN [total |-> Len(findings), by_severity |-> by_severity, by_pattern |-> by_pattern]
  ELSE SummaryLoop(findings, k + 1, Increment(by_severity, findings[k].severity),
                   Increment(by_pattern, findings[k].id))

compute_summary(findings) == SummaryLoop(findings, 1, by_severity_Start, << >>)

\* report.security_score = self._compute_security_score(all_findings)
ComputeSecurityScore ==
  /\ pc = "score"
  /\ report' = [report EXCEPT !.security_score = compute_security_score(all_findings)]
  /\ pc' = "summary"
  /\ UNCHANGED <<blockVars, parseVars, det_out, entry, target, files, fi, pi, all_findings,
                 raised, hash_seed, prev_findings, runs, walkVars, oracleVars, synthVars, clientVars>>

\* report.summary = self._compute_summary(all_findings); return report
ComputeSummary ==
  /\ pc = "summary"
  /\ report' = [report EXCEPT !.summary = compute_summary(all_findings)]
  /\ pc' = "done"
  /\ runs' = runs + 1
  /\ UNCHANGED <<blockVars, parseVars, det_out, entry, target, files, fi, pi, all_findings,
                 raised, hash_seed, prev_findings, walkVars, oracleVars, synthVars, clientVars>>

\* findings as a caller of the two functions may pass them
SEVERITIES == {"Critical", "High", "Medium", "Low"}
ReportFindings ==
  {Finding(id, severity, "<input>", 1) :
     id \in {"ANCHOR-001", "ANCHOR-004"}, severity \in SEVERITIES}

InitReport ==
  /\ all_findings \in SeqsUpTo(ReportFindings, MaxFindings)
  /\ report = ScanReport("<input>", 1, Len(ALL_PATTERNS), all_findings)
  /\ pc = "score"
  /\ content = <<>>
  /\ blocks = <<>>
  /\ ParseIdle
  /\ det_out = <<>>
  /\ entry = "scan_content"
  /\ target = "none"
  /\ files = <<>>
  /\ fi = 0
  /\ pi = 0
  /\ raised = {}
  /\ hash_seed = 0
  /\ prev_findings = <<>>
  /\ runs = 0
  /\ WalkIdle
  /\ OracleIdle
  /\ SynthIdle
  /\ ClientIdle

NextReport == ComputeSecurityScore \/ ComputeSummary

SpecReport == InitReport /\ [][NextReport]_vars

(***************************************************************************)
(* AnchorShieldEngine: scan_directory, scan_file, scan_content             *)
(***************************************************************************)
Samples == {SampleWithdraw, SampleLifecycle, SampleClean, SampleEmpty}

\* a discovered .rs file: what it holds and whether open() succeeds
FileKinds ==
  {[content |-> c, readable |-> TRUE] : c \in {SampleWithdraw, SampleClean}}
    \cup {[content |-> SampleEmpty, readable |-> FALSE]}

\* os.path.relpath(rs_file, path) of the k-th discovered file
RelPath(k) == << "a.rs", "b.rs", "c.rs", "d.rs" >>[k]

SingleFile == entry \in {"scan_file", "scan_content"} \/ target = "file"

\* the file_path argument of pattern.scan
ScanPath(k) ==
  IF entry = "scan_content" THEN "<input>"
  ELSE IF SingleFile THEN "a.rs"
  ELSE RelPath(k)

\* try: findings = pattern.scan(..); all_findings.extend(findings)
\* except Exception: pass
TryScanDropsEarlier(acc, raises, findings) ==
  IF raises THEN <<>> ELSE acc \o findings

TryScanPrepends(acc, raises, findings) ==
  IF raises THEN acc ELSE findings \o acc

TryScan(acc, raises, findings) ==
  IF raises THEN acc ELSE acc \o findings

\* scan_directory up to its loop over rs_files
ScanDirectoryStartNoCheck ==
  /\ pc = "call"
  /\ entry = "scan_directory"
  /\ target \in {"dir", "missing"}
  /\ pc' = "open" /\ fi' = 1 /\ pi' = 1
  /\ all_findings' = <<>>
  /\ UNCHANGED <<blockVars, parseVars, det_out, entry, target, files, report, raised,
                 hash_seed, prev_findings, runs, walkVars, oracleVars, synthVars, clientVars>>

ScanDirectoryStart ==
  /\ pc = "call"
  /\ entry = "scan_directory"
  /\ target \in {"dir", "missing"}
  /\ IF target = "missing"
     THEN pc' = "raised" /\ UNCHANGED <<fi, pi, walkVars, oracleVars, synthVars, clientVars>>
     ELSE pc' = "open" /\ fi' = 1 /\ pi' = 1
  /\ all_findings' = <<>>
  /\ UNCHANGED <<blockVars, parseVars, det_out, entry, target, files, report, raised,
                 hash_seed, prev_findings, runs, walkVars, oracleVars, synthVars, clientVars>>

\* scan_file up to its loop over the patterns, called directly or by
\* scan_directory on a path that is a file
ScanFileStart ==
  /\ pc = "call"
  /\ entry = "scan_file" \/ (entry = "scan_directory" /\ target = "file")
  /\ IF files[1].readable
     THEN pc' = "scan" /\ fi' = 1 /\ pi' = 1
     ELSE pc' = "raised" /\ UNCHANGED <<fi, pi, walkVars, oracleVars, synthVars, clientVars>>
  /\ all_findings' = <<>>
  /\ UNCHANGED <<blockVars, parseVars, det_out, entry, target, files, report, raised,
                 hash_seed, prev_findings, runs, walkVars, oracleVars, synthVars, clientVars>>

\* scan_content up to its loop over the patterns
ScanContentStart ==
  /\ pc = "call"
  /\ entry = "scan_content"
  /\ pc' = "scan"
  /\ fi' = 1
  /\ pi' = 1
  /\ all_findings' = <<>>
  /\ UNCHANGED <<blockVars, parseVars, det_out, entry, target, files, report, raised,
                 hash_seed, prev_findings, runs, walkVars, oracleVars, synthVars, clientVars>>

\* scan_directory: open and read the next file; a file that cannot be read
\* is skipped
OpenFileAborts ==
  /\ pc = "open"
  /\ fi <= Len(files)
  /\ IF files[fi].readable
     THEN pc' = "scan" /\ pi' = 1 /\ fi' = fi
     ELSE pc' = "raised" /\ pi' = pi /\ fi' = fi
  /\ UNCHANGED <<blockVars, parseVars, det_out, entry, target, files, all_findings,
                 report, raised, hash_seed, prev_findings, runs, walkVars, oracleVars, synthVars, clientVars>>

OpenFile ==
  /\ pc = "open"
  /\ fi <= Len(files)
  /\ IF files[fi].readable
     THEN pc' = "scan" /\ pi' = 1 /\ fi' = fi
     ELSE pc' = "open" /\ pi' = pi /\ fi' = fi + 1
  /\ UNCHANGED <<blockVars, parseVars, det_out, entry, target, files, all_findings,
                 report, raised, hash_seed, prev_findings, runs, walkVars, oracleVars, synthVars, clientVars>>

\* where the loops stand after the pattern pi of the file fi
AfterPattern ==
  IF pi < Len(ALL_PATTERNS) THEN [pc |-> "scan", fi |-> fi, pi |-> pi + 1]
  ELSE IF SingleFile THEN [pc |-> "finish", fi |-> fi, pi |-> pi + 1]
  ELSE [pc |-> "open", fi |-> fi + 1, pi |-> 1]

\* one pass of the loop over self.patterns
ScanPattern(raises) ==
  /\ pc = "scan"
  /\ pi <= Len(ALL_PATTERNS)
  /\ all_findings' =
       TryScan(all_findings, raises,
               PatternScan(pi, ScanPath(fi), files[fi].content, hash_seed))
  /\ raised' = IF raises THEN raised \cup {<<fi, pi>>} ELSE raised
  /\ pc' = AfterPattern.pc
  /\ fi' = AfterPattern.fi
  /\ pi' = AfterPattern.pi
  /\ UNCHANGED <<blockVars, parseVars, det_out, entry, target, files, report,
                 hash_seed, prev_findings, runs, walkVars, oracleVars, synthVars, clientVars>>

\* the scan of this pattern on this file returns its findings
ScanReturns ==
  /\ pc = "scan"
  /\ ScanPattern(FALSE)

\* the scan of this pattern on this file raises an Exception
ScanRaises ==
  /\ Cardinality(raised) < MaxRaises
  /\ ScanPattern(TRUE)

\* report = ScanReport(..) once the loops are over
BuildReport ==
  /\ \/ pc = "finish"
     \/ pc = "open" /\ fi > Len(files)
  /\ report' = ScanReport(IF entry = "scan_content" THEN "<input>" ELSE "/abs/path",
                          IF SingleFile THEN 1 ELSE Len(files),
                          Len(ALL_PATTERNS), all_findings)
  /\ pc' = "score"
  /\ UNCHANGED <<blockVars, parseVars, det_out, entry, target, files, fi, pi,
                 all_findings, raised, hash_seed, prev_findings, runs, walkVars, oracleVars, synthVars, clientVars>>

\* a call of one of the three methods on files of the given kinds
InitCall(kinds) ==
  /\ entry \in {"scan_directory", "scan_file", "scan_content"}
  /\ target \in {"dir", "file", "missing"}
  /\ files \in SeqsUpTo(kinds, MaxFiles)
  /\ CASE entry = "scan_directory" /\ target = "dir" -> TRUE
       [] entry = "scan_directory" /\ target = "file" -> Len(files) = 1
       [] entry = "scan_directory" /\ target = "missing" -> files = <<>>
       [] entry = "scan_file" -> target = "file" /\ Len(files) = 1
       [] entry = "scan_content" ->
            target = "file" /\ Len(files) = 1 /\ files[1].readable
  /\ hash_seed \in HashSeeds
  /\ pc = "call"
  /\ content = <<>>
  /\ blocks = <<>>
  /\ ParseIdle
  /\ det_out = <<>>
  /\ fi = 0
  /\ pi = 0
  /\ all_findings = <<>>
  /\ report = NoReport
  /\ raised = {}
  /\ prev_findings = <<>>
  /\ runs = 0
  /\ WalkIdle
  /\ OracleIdle
  /\ SynthIdle
  /\ ClientIdle

InitEngine == InitCall(FileKinds)

NextEngine ==
  \/ ScanDirectoryStart
  \/ ScanFileStart
  \/ ScanContentStart
  \/ OpenFile
  \/ ScanReturns
  \/ ScanRaises
  \/ BuildReport
  \/ ComputeSecurityScore
  \/ ComputeSummary

SpecEngine == InitEngine /\ [][NextEngine]_vars

\* the same content scanned again, by the same process or by a new one
ScanAgain ==
  /\ pc = "done"
  /\ runs < MaxRuns
  /\ prev_findings' = report.findings
  /\ \E seed \in HashSeeds : hash_seed' = seed
  /\ pc' = "call"
  /\ UNCHANGED <<blockVars, parseVars, det_out, entry, target, files, fi, pi,
                 all_findings, report, raised, runs, walkVars, oracleVars, synthVars, clientVars>>

InitRescan ==
  /\ InitCall({[content |-> c, readable |-> TRUE] : c \in Samples})
  /\ entry = "scan_content"

NextRescan ==
  \/ ScanContentStart
  \/ ScanReturns
  \/ BuildReport
  \/ ComputeSecurityScore
  \/ ComputeSummary
  \/ ScanAgain

SpecRescan == InitRescan /\ [][NextRescan]_vars

(***************************************************************************)
(* scan_directory: the discovery of the source files                       *)
(***************************************************************************)
DirNames == {"src", "target", "node_modules"}
FileNames == {"lib.rs", "notes.md"}

\* f.endswith(".rs")
EndsWithRs(f) == f = "lib.rs"

\* os.path.abspath(path).split(os.sep) of the roots scanned
RootPaths ==
  { << "", "home", "proj" >>,
    << "", "build", "target", "proj" >>,
    << "", "node_modules", "pkg" >> }

\* the sets of at most n directories a tree may have under its root, as
\* paths relative to it: each directory lies in the root or in another one
RECURSIVE DirSets(_)
DirSets(n) ==
  IF n = 0 THEN {{}}
  ELSE LET smaller == DirSets(n - 1)
       IN smaller \cup
            UNION {{D \cup {Append(p, name)} : p \in D \cup {<<>>}, name \in DirNames} :
                     D \in smaller}

\* the trees on disk: the root, at most MaxDirs directories under it, and
\* the file names each of them holds
Trees == UNION {[D \cup {<<>>} -> SUBSET FileNames] : D \in DirSets(MaxDirs)}

\* the sub-directories os.walk finds in directory d
SubDirs(d) ==
  {e \in DOMAIN tree : Len(e) = Len(d) + 1 /\ SubSeq(e, 1, Len(d)) = d}

\* the orders in which a listing may give the members of a set
Orders(S) == {q \in [1..Cardinality(S) -> S] : \A x \in S : \E k \in DOMAIN q : q[k] = x}

\* "target" in root.split(os.sep) or "node_modules" in root.split(os.sep)
IsSkipped(root) ==
  \E k \in 1..Len(root) : root[k] \in {"target", "node_modules"}

InitWalk ==
  /\ path \in RootPaths
  /\ tree \in Trees
  /\ walk = <<>>
  /\ rs_files = <<>>
  /\ pc = "call"
  /\ entry = "scan_directory"
  /\ target = "dir"
  /\ content = <<>>
  /\ blocks = <<>>
  /\ ParseIdle
  /\ det_out = <<>>
  /\ files = <<>>
  /\ fi = 0
  /\ pi = 0
  /\ all_findings = <<>>
  /\ report = NoReport
  /\ raised = {}
  /\ hash_seed = 0
  /\ prev_findings = <<>>
  /\ runs = 0
  /\ OracleIdle
  /\ SynthIdle
  /\ ClientIdle

\* rs_files = []; os.walk(path) starts at the root
WalkStart ==
  /\ pc = "call"
  /\ rs_files' = <<>>
  /\ walk' = << <<>> >>
  /\ pc' = "walk"
  /\ UNCHANGED <<blockVars, parseVars, det_out, engineVars, path, tree, oracleVars, synthVars, clientVars>>

\* one pass of  for root, _, files in os.walk(path): the next directory is
\* yielded, its files are kept unless it is skipped, and the walk goes on
\* into its sub-directories, which the continue does not prune
WalkDir ==
  /\ pc = "walk"
  /\ walk # <<>>
  /\ LET d == Head(walk)
         root == path \o d
     IN /\ \E fs \in Orders(tree[d]) :
             rs_files' =
               IF IsSkipped(root) THEN rs_files
               ELSE rs_files \o
                      SelectSeq([k \in DOMAIN fs |-> root \o << fs[k] >>],
                                LAMBDA f : EndsWithRs(f[Len(f)]))
        /\ \E sub \in Orders(SubDirs(d)) : walk' = sub \o Tail(walk)
  /\ pc' = "walk"
  /\ UNCHANGED <<blockVars, parseVars, det_out, engineVars, path, tree, oracleVars, synthVars, clientVars>>

\* os.walk is exhausted
WalkEnd ==
  /\ pc = "walk"
  /\ walk = <<>>
  /\ pc' = "discovered"
  /\ UNCHANGED <<blockVars, parseVars, det_out, engineVars, walkVars, oracleVars, synthVars, clientVars>>

NextWalk == WalkStart \/ WalkDir \/ WalkEnd

SpecWalk == InitWalk /\ [][NextWalk]_vars

(***************************************************************************)
(* SemanticAnalyzer                                                        *)
(***************************************************************************)
MAX_RETRIES == 3
RETRY_DELAY == 2

SemanticFinding(id, severity, title, source) ==
  [id |-> id, severity |-> severity, title |-> title, source |-> source]

_PREVALIDATED_FINDINGS ==
  << SemanticFinding("SEM-001", "Critical", "Collateral check ignores existing debt",
                     "validated"),
     SemanticFinding("SEM-002", "Critical",
                     "Withdrawal allows full exit with outstanding borrows", "validated"),
     SemanticFinding("SEM-003", "High", "Integer overflow in interest calculation",
                     "validated"),
     SemanticFinding("SEM-004", "Medium",
                     "Division by zero panic in health factor calculation", "validated") >>

\* what one urlopen of the live call may meet
Answers ==
  { "http_error",        \* urllib.error.HTTPError
    "network_error",     \* URLError, TimeoutError, OSError
    "body_not_json",     \* the response body is not JSON
    "text_key_missing",  \* a text block without "text"
    "braces_not_json",   \* the text has { .. } which is not JSON
    "no_json_in_text",   \* the text has no { .. } at all
    "fence_no_newline",  \* the text is a bare ``` fence
    "findings_not_dict", \* the text is JSON but not an object
    "bad_confidence",    \* a finding whose confidence is not a number
    "body_not_utf8",     \* the response body is not UTF-8
    "findings" }         \* a well-formed list of findings

\* one pass of the try block of _call_api and of _parse_findings: the list
\* returned, the exception that leaves _call_api, or a caught exception
AttemptOutcome(answer) ==
  CASE answer \in {"http_error", "network_error", "body_not_json", "text_key_missing",
                   "braces_not_json"}
         -> [kind |-> "caught", value |-> <<>>]
    [] answer = "no_json_in_text" -> [kind |-> "returned", value |-> <<>>]
    [] answer = "fence_no_newline" -> [kind |-> "raised", value |-> << "ValueError" >>]
    [] answer = "findings_not_dict" -> [kind |-> "raised", value |-> << "AttributeError" >>]
    [] answer = "bad_confidence" -> [kind |-> "raised", value |-> << "ValueError" >>]
    [] answer = "body_not_utf8" -> [kind |-> "raised", value |-> << "UnicodeDecodeError" >>]
    [] answer = "findings"
         -> [kind |-> "returned",
             value |-> << SemanticFinding("SEM-001", "High", "Missing signer check",
                                          "semantic") >>]

InitAnalyze ==
  /\ api_key \in BOOLEAN
  /\ demo_mode = FALSE
  /\ attempt = 0
  /\ delay = 0
  /\ sleeps = <<>>
  /\ result = NoResult
  /\ calls = 0
  /\ answers = <<>>
  /\ finding = NoFinding
  /\ pc = "idle"
  /\ content = <<>>
  /\ blocks = <<>>
  /\ ParseIdle
  /\ EngineIdle
  /\ WalkIdle
  /\ SynthIdle
  /\ ClientIdle

\* analyze up to the first live attempt; without API key it returns the
\* pre-validated findings at once
AnalyzeStart ==
  /\ pc = "idle"
  /\ calls < MaxCalls
  /\ attempt' = 0
  /\ sleeps' = <<>>
  /\ answers' = <<>>
  /\ IF ~api_key
     THEN /\ demo_mode' = TRUE
          /\ result' = [kind |-> "returned", value |-> _PREVALIDATED_FINDINGS]
          /\ calls' = calls + 1
          /\ pc' = "idle"
          /\ delay' = delay
     ELSE /\ delay' = RETRY_DELAY
          /\ result' = NoResult
          /\ pc' = "attempt"
          /\ UNCHANGED <<demo_mode, calls, synthVars, clientVars>>
  /\ UNCHANGED <<blockVars, parseVars, det_out, engineVars, walkVars, api_key, finding, synthVars, clientVars>>

\* a live attempt that gives findings: analyze returns them
AttemptReturns ==
  /\ pc = "attempt"
  /\ \E a \in Answers :
       /\ AttemptOutcome(a).kind = "returned"
       /\ answers' = Append(answers, a)
       /\ result' = AttemptOutcome(a)
  /\ attempt' = attempt + 1
  /\ calls' = calls + 1
  /\ pc' = "idle"
  /\ UNCHANGED <<blockVars, parseVars, det_out, engineVars, walkVars, api_key, demo_mode,
                 delay, sleeps, finding, synthVars, clientVars>>

\* a live attempt that raises an exception no except clause names: it
\* leaves _call_api and analyze
AttemptRaises ==
  /\ pc = "attempt"
  /\ \E a \in Answers :
       /\ AttemptOutcome(a).kind = "raised"
       /\ answers' = Append(answers, a)
       /\ result' = AttemptOutcome(a)
  /\ attempt' = attempt + 1
  /\ calls' = calls + 1
  /\ pc' = "idle"
  /\ UNCHANGED <<blockVars, parseVars, det_out, engineVars, walkVars, api_key, demo_mode,
                 delay, sleeps, finding, synthVars, clientVars>>

\* the same with a sleep after the last attempt as well
AttemptFailsSleepsLast ==
  /\ pc = "attempt"
  /\ \E a \in Answers :
       /\ AttemptOutcome(a).kind = "caught"
       /\ answers' = Append(answers, a)
  /\ attempt' = attempt + 1
  /\ sleeps' = Append(sleeps, delay)
  /\ delay' = delay * 2
  /\ IF attempt + 1 < MAX_RETRIES
     THEN /\ pc' = "attempt"
          /\ UNCHANGED <<demo_mode, result, calls>>
     ELSE /\ demo_mode' = TRUE
          /\ result' = [kind |-> "returned", value |-> _PREVALIDATED_FINDINGS]
          /\ calls' = calls + 1
          /\ pc' = "idle"
  /\ UNCHANGED <<blockVars, parseVars, det_out, engineVars, walkVars, api_key, finding, synthVars, clientVars>>

\* a live attempt whose exception is caught: sleep and retry, or after the
\* last attempt return None, on which analyze falls back
AttemptFails ==
  /\ pc = "attempt"
  /\ \E a \in Answers :
       /\ AttemptOutcome(a).kind = "caught"
       /\ answers' = Append(answers, a)
  /\ attempt' = attempt + 1
  /\ IF attempt + 1 < MAX_RETRIES
     THEN /\ sleeps' = Append(sleeps, delay)
          /\ delay' = delay * 2
          /\ pc' = "attempt"
          /\ UNCHANGED <<demo_mode, result, calls, synthVars, clientVars>>
     ELSE /\ demo_mode' = TRUE
          /\ result' = [kind |-> "returned", value |-> _PREVALIDATED_FINDINGS]
          /\ calls' = calls + 1
          /\ pc' = "idle"
          /\ UNCHANGED <<sleeps, delay, synthVars, clientVars>>
  /\ UNCHANGED <<blockVars, parseVars, det_out, engineVars, walkVars, api_key, finding, synthVars, clientVars>>

NextAnalyze == AnalyzeStart \/ AttemptReturns \/ AttemptRaises \/ AttemptFails

SpecAnalyze == InitAnalyze /\ [][NextAnalyze]_vars

(***************************************************************************)
(* ExploitSynthesizer                                                      *)
(***************************************************************************)
\* titles of the findings handed to generate_exploit
Titles ==
  { "Collateral check ignores existing debt",
    "WITHDRAW drains the vault",
    "Integer Overflow in withdraw path",
    "overflow of collateral",
    "Missing signer check",
    "" }

\* finding.title.lower()
LowerAsIs(title) == title

Lower(title) ==
  CASE title = "Collateral check ignores existing debt"
         -> "collateral check ignores existing debt"
    [] title = "WITHDRAW drains the vault" -> "withdraw drains the vault"
    [] title = "Integer Overflow in withdraw path" -> "integer overflow in withdraw path"
    [] title = "Missing signer check" -> "missing signer check"
    [] OTHER -> title

\* keyword in title_lower
Contains(keyword, text) ==
  CASE keyword = "collateral"
         -> text \in {"collateral check ignores existing debt", "overflow of collateral"}
    [] keyword = "withdraw"
         -> text \in {"withdraw drains the vault", "integer overflow in withdraw path",
                      "Integer Overflow in withdraw path"}
    [] keyword = "overflow"
         -> text \in {"integer overflow in withdraw path", "overflow of collateral"}
    [] OTHER -> FALSE

\* _PREBUILT_EXPLOITS in the order of its items()
_PREBUILT_EXPLOITS ==
  << [keyword |-> "collateral", code |-> "_EXPLOIT_COLLATERAL_BYPASS"],
     [keyword |-> "withdraw", code |-> "_EXPLOIT_WITHDRAW_DRAIN"],
     [keyword |-> "overflow", code |-> "_EXPLOIT_OVERFLOW_LIQUIDATION"] >>

ExploitCode(f, code) ==
  [finding_id |-> f.id, title |-> f.title, language |-> "python", code |-> code,
   status |-> "GENERATED"]

\* _get_prebuilt_exploit: the exploit of the first keyword found in the
\* lowered title, <<>> for None
get_prebuilt_exploit(f) ==
  LET hits == {k \in 1..Len(_PREBUILT_EXPLOITS) :
                 Contains(_PREBUILT_EXPLOITS[k].keyword, Lower(f.title))}
  IN IF hits = {} THEN <<>>
     ELSE LET k == CHOOSE h \in hits : \A o \in hits : h <= o
          IN << ExploitCode(f, _PREBUILT_EXPLOITS[k].code) >>

\* what one urlopen of the synthesizer's live call may meet
ExploitAnswers ==
  { "http_error",        \* urllib.error.HTTPError
    "network_error",     \* URLError, TimeoutError, OSError
    "body_not_json",     \* the response body is not JSON
    "fence_no_newline",  \* the text is a bare ``` fence
    "empty_text",        \* no text in the response
    "code" }             \* exploit code

\* one pass of the try block of the synthesizer's _call_api
ExploitOutcome(answer) ==
  CASE answer \in {"http_error", "network_error"} -> [kind |-> "caught", value |-> <<>>]
    [] answer = "body_not_json" -> [kind |-> "raised", value |-> << "JSONDecodeError" >>]
    [] answer = "fence_no_newline" -> [kind |-> "raised", value |-> << "ValueError" >>]
    [] answer = "empty_text" -> [kind |-> "returned", value |-> <<>>]
    [] answer = "code" -> [kind |-> "returned", value |-> << "live code" >>]

InitExploit ==
  /\ api_key \in BOOLEAN
  /\ finding \in [id : {"SEM-001", "SEM-007"}, title : Titles, severity : {"Critical"}]
  /\ demo_mode = FALSE
  /\ attempt = 0
  /\ delay = 0
  /\ sleeps = <<>>
  /\ result = NoResult
  /\ calls = 0
  /\ answers = <<>>
  /\ pc = "idle"
  /\ content = <<>>
  /\ blocks = <<>>
  /\ ParseIdle
  /\ EngineIdle
  /\ WalkIdle
  /\ SynthIdle
  /\ ClientIdle

\* generate_exploit up to the first live attempt: the pre-built exploit when
\* the title has a keyword, None when there is no API key
GenerateExploit ==
  /\ pc = "idle"
  /\ calls < MaxCalls
  /\ attempt' = 0
  /\ sleeps' = <<>>
  /\ answers' = <<>>
  /\ IF get_prebuilt_exploit(finding) # <<>>
     THEN /\ result' = [kind |-> "returned", value |-> get_prebuilt_exploit(finding)]
          /\ calls' = calls + 1
          /\ pc' = "idle"
          /\ UNCHANGED <<demo_mode, delay, synthVars, clientVars>>
     ELSE /\ demo_mode' = FALSE
          /\ IF api_key
             THEN /\ delay' = RETRY_DELAY
                  /\ result' = NoResult
                  /\ pc' = "attempt"
                  /\ calls' = calls
             ELSE /\ result' = [kind |-> "returned", value |-> <<>>]
                  /\ calls' = calls + 1
                  /\ pc' = "idle"
                  /\ delay' = delay
  /\ UNCHANGED <<blockVars, parseVars, det_out, engineVars, walkVars, api_key, finding, synthVars, clientVars>>

\* a live attempt that gives text: the exploit built from it, None when the
\* text is empty
ExploitReturns ==
  /\ pc = "attempt"
  /\ \E a \in ExploitAnswers :
       /\ ExploitOutcome(a).kind = "returned"
       /\ answers' = Append(answers, a)
       /\ result' =
            [kind |-> "returned",
             value |-> IF ExploitOutcome(a).value = <<>> THEN <<>>
                       ELSE << ExploitCode(finding, ExploitOutcome(a).value[1]) >>]
  /\ attempt' = attempt + 1
  /\ calls' = calls + 1
  /\ pc' = "idle"
  /\ UNCHANGED <<blockVars, parseVars, det_out, engineVars, walkVars, api_key, demo_mode,
                 delay, sleeps, finding, synthVars, clientVars>>

\* a live attempt that raises an exception the except clause does not name
ExploitRaises ==
  /\ pc = "attempt"
  /\ \E a \in ExploitAnswers :
       /\ ExploitOutcome(a).kind = "raised"
       /\ answers' = Append(answers, a)
       /\ result' = ExploitOutcome(a)
  /\ attempt' = attempt + 1
  /\ calls' = calls + 1
  /\ pc' = "idle"
  /\ UNCHANGED <<blockVars, parseVars, det_out, engineVars, walkVars, api_key, demo_mode,
                 delay, sleeps, finding, synthVars, clientVars>>

\* a live attempt whose exception is caught: sleep and retry, or None after
\* the last attempt
ExploitFails ==
  /\ pc = "attempt"
  /\ \E a \in ExploitAnswers :
       /\ ExploitOutcome(a).kind = "caught"
       /\ answers' = Append(answers, a)
  /\ attempt' = attempt + 1
  /\ IF attempt + 1 < MAX_RETRIES
     THEN /\ sleeps' = Append(sleeps, delay)
          /\ delay' = delay * 2
          /\ pc' = "attempt"
          /\ UNCHANGED <<result, calls, synthVars, clientVars>>
     ELSE /\ result' = [kind |-> "returned", value |-> <<>>]
          /\ calls' = calls + 1
          /\ pc' = "idle"
          /\ UNCHANGED <<sleeps, delay, synthVars, clientVars>>
  /\ UNCHANGED <<blockVars, parseVars, det_out, engineVars, walkVars, api_key, demo_mode,
                 finding, synthVars, clientVars>>

NextExploit == GenerateExploit \/ ExploitReturns \/ ExploitRaises \/ ExploitFails

SpecExploit == InitExploit /\ [][NextExploit]_vars

\* ---- generate_all -----------------------------------------------------------
\* finding.severity not in ("Critical", "High")
IsSkippedSeverityNever(severity) == FALSE

IsSkippedSeverity(severity) == severity \notin {"Critical", "High"}

\* the findings generate_all may be given
InputFindings ==
  [id : {"SEM-001", "SEM-002"},
   title : {"WITHDRAW drains the vault", "Missing signer check"},
   severity : {"Critical", "High", "Medium", "Low"}]

\* how self._call_api(source_code, finding) may end: exploit code, None
\* (three caught failures or an empty text), an exception that leaves it
CallApiResults == {"code", "none", "raised"}

InitGenerateAll ==
  /\ api_key \in BOOLEAN
  /\ sem_findings \in SeqsUpTo(InputFindings, MaxInput)
  /\ exploits = <<>>
  /\ fx = 0
  /\ pc = "idle"
  /\ demo_mode = FALSE
  /\ attempt = 0
  /\ delay = 0
  /\ sleeps = <<>>
  /\ result = NoResult
  /\ calls = 0
  /\ answers = <<>>
  /\ finding = NoFinding
  /\ content = <<>>
  /\ blocks = <<>>
  /\ ParseIdle
  /\ EngineIdle
  /\ WalkIdle
  /\ ClientIdle

\* exploits = []; the loop starts at the first finding
GenerateAllStart ==
  /\ pc = "idle"
  /\ exploits' = <<>>
  /\ fx' = 1
  /\ pc' = "loop"
  /\ UNCHANGED <<blockVars, parseVars, det_out, engineVars, walkVars, oracleVars,
                 sem_findings, clientVars>>

\* one pass of the loop on a finding whose severity is filtered out
SkipFinding ==
  /\ pc = "loop"
  /\ fx <= Len(sem_findings)
  /\ IsSkippedSeverity(sem_findings[fx].severity)
  /\ fx' = fx + 1
  /\ UNCHANGED <<blockVars, parseVars, det_out, engineVars, walkVars, oracleVars, pc,
                 sem_findings, exploits, clientVars>>

\* one pass of the loop on a finding that has a pre-built exploit, or none
\* and no API key: generate_exploit returns without a live call
ExploitFinding ==
  /\ pc = "loop"
  /\ fx <= Len(sem_findings)
  /\ ~IsSkippedSeverity(sem_findings[fx].severity)
  /\ get_prebuilt_exploit(sem_findings[fx]) # <<>> \/ ~api_key
  /\ finding' = sem_findings[fx]
  /\ exploits' = exploits \o get_prebuilt_exploit(sem_findings[fx])
  /\ demo_mode' = IF get_prebuilt_exploit(sem_findings[fx]) = <<>> THEN FALSE ELSE demo_mode
  /\ fx' = fx + 1
  /\ UNCHANGED <<blockVars, parseVars, det_out, engineVars, walkVars, api_key, attempt,
                 delay, sleeps, result, calls, answers, pc, sem_findings, clientVars>>

\* one pass of the loop on a finding without pre-built exploit, with API
\* key: generate_exploit makes the live call
ExploitFindingLive ==
  /\ pc = "loop"
  /\ fx <= Len(sem_findings)
  /\ ~IsSkippedSeverity(sem_findings[fx].severity)
  /\ get_prebuilt_exploit(sem_findings[fx]) = <<>>
  /\ api_key
  /\ finding' = sem_findings[fx]
  /\ demo_mode' = FALSE
  /\ \E r \in CallApiResults :
       /\ exploits' = IF r = "code"
                      THEN Append(exploits, ExploitCode(sem_findings[fx], "live code"))
                      ELSE exploits
       /\ pc' = IF r = "raised" THEN "raised" ELSE "loop"
       /\ fx' = IF r = "raised" THEN fx ELSE fx + 1
  /\ UNCHANGED <<blockVars, parseVars, det_out, engineVars, walkVars, api_key, attempt,
                 delay, sleeps, result, calls, answers, sem_findings, clientVars>>

\* return exploits
GenerateAllReturn ==
  /\ pc = "loop"
  /\ fx > Len(sem_findings)
  /\ result' = [kind |-> "returned", value |-> exploits]
  /\ pc' = "done"
  /\ UNCHANGED <<blockVars, parseVars, det_out, engineVars, walkVars, api_key, demo_mode,
                 attempt, delay, sleeps, calls, answers, finding, synthVars, clientVars>>

NextGenerateAll ==
  \/ GenerateAllStart
  \/ SkipFinding
  \/ ExploitFinding
  \/ ExploitFindingLive
  \/ GenerateAllReturn

SpecGenerateAll == InitGenerateAll /\ [][NextGenerateAll]_vars

(***************************************************************************)
(* GitHubClient._api_get                                                   *)
(***************************************************************************)
RATE_LIMIT_STATUS == 403
MAX_WAIT == 60

\* what session.get may meet: a response with its status and rate-limit
\* headers, a response whose rate-limit header is not a number, or a
\* RequestException. ahead is X-RateLimit-Reset less the time of the response.
ApiAnswers ==
  [kind : {"response"}, status : {200, RATE_LIMIT_STATUS, 404}, remaining : {0, 59},
   ahead : {0 - 5, 0, 59, 60}]
    \cup [kind : {"request_exception", "bad_header"}, status : {0}, remaining : {0},
          ahead : {0}]

\* max(0, self._rate_limit_reset - int(time.time())) + 1
WaitFor(ahead) == Max(0, ahead) + 1

\* the branch of the elif that sleeps and calls _api_get again
IsRetried(a) ==
  /\ a.kind = "response"
  /\ a.status = RATE_LIMIT_STATUS
  /\ a.remaining = 0
  /\ WaitFor(a.ahead) <= MAX_WAIT

InitApiGet ==
  /\ pc = "idle"
  /\ content = <<>>
  /\ blocks = <<>>
  /\ ParseIdle
  /\ EngineIdle
  /\ WalkIdle
  /\ OracleIdle
  /\ SynthIdle
  /\ ClientIdle

\* a call of _api_get up to its first session.get
ApiGetStart ==
  /\ pc = "idle"
  /\ calls < MaxCalls
  /\ attempt' = 0
  /\ delay' = 0
  /\ result' = NoResult
  /\ pc' = "request"
  /\ UNCHANGED <<blockVars, parseVars, det_out, engineVars, walkVars, api_key, demo_mode,
                 sleeps, calls, answers, finding, synthVars, clientVars>>

\* session.get answers 200: resp.json() is returned. The number of requests
\* of the call is counted up to MaxRequests.
ApiGetReturns ==
  /\ pc = "request"
  /\ \E a \in ApiAnswers :
       /\ a.kind = "response" /\ a.status = 200
       /\ rate_limit_remaining' = a.remaining
       /\ rate_limit_reset' = a.ahead
  /\ attempt' = Min(attempt + 1, MaxRequests)
  /\ result' = [kind |-> "returned", value |-> << "json" >>]
  /\ calls' = calls + 1
  /\ pc' = "idle"
  /\ UNCHANGED <<blockVars, parseVars, det_out, engineVars, walkVars, api_key, demo_mode,
                 delay, sleeps, answers, finding, synthVars>>

\* session.get answers 403 with no requests remaining and a reset at most
\* 60 seconds away: sleep, then the recursive call makes the next request
ApiGetRetries ==
  /\ pc = "request"
  /\ \E a \in ApiAnswers :
       /\ IsRetried(a)
       /\ rate_limit_remaining' = a.remaining
       /\ rate_limit_reset' = a.ahead
       /\ delay' = WaitFor(a.ahead)
  /\ attempt' = Min(attempt + 1, MaxRequests)
  /\ UNCHANGED <<blockVars, pc, parseVars, det_out, engineVars, walkVars, api_key, demo_mode,
                 sleeps, result, calls, answers, finding, synthVars>>

\* any other response, or a RequestException: None is returned
ApiGetGivesUp ==
  /\ pc = "request"
  /\ \E a \in ApiAnswers :
       \/ /\ a.kind = "response" /\ a.status # 200 /\ ~IsRetried(a)
          /\ rate_limit_remaining' = a.remaining
          /\ rate_limit_reset' = a.ahead
       \/ /\ a.kind = "request_exception"
          /\ UNCHANGED clientVars
  /\ attempt' = Min(attempt + 1, MaxRequests)
  /\ result' = [kind |-> "returned", value |-> << "None" >>]
  /\ calls' = calls + 1
  /\ pc' = "idle"
  /\ UNCHANGED <<blockVars, parseVars, det_out, engineVars, walkVars, api_key, demo_mode,
                 delay, sleeps, answers, finding, synthVars>>

\* a rate-limit header that int() rejects: the ValueError leaves _api_get
ApiGetRaises ==
  /\ pc = "request"
  /\ \E a \in ApiAnswers : a.kind = "bad_header"
  /\ attempt' = Min(attempt + 1, MaxRequests)
  /\ result' = [kind |-> "raised", value |-> << "ValueError" >>]
  /\ calls' = calls + 1
  /\ pc' = "idle"
  /\ UNCHANGED <<blockVars, parseVars, det_out, engineVars, walkVars, api_key, demo_mode,
                 delay, sleeps, answers, finding, synthVars, clientVars>>

NextApiGet == ApiGetStart \/ ApiGetReturns \/ ApiGetRetries \/ ApiGetGivesUp \/ ApiGetRaises

SpecApiGet == InitApiGet /\ [][NextApiGet]_vars

\* a call that has started goes on: the interpreter does not stop between
\* two statements, and session.get comes back within its timeout
FairSpecApiGet == SpecApiGet /\ WF_vars(NextApiGet)

(***************************************************************************)
(* Specification of InitIfNeededPattern.scan on attribute lines            *)
(***************************************************************************)
TokenAttr(marker, ns) ==
  << ATTR_OPEN, marker, ",", SP, ns, ATTR_CLOSE >>

AttrLineAlphabet ==
  { TokenAttr("init_if_needed", "token::mint = m"),
    TokenAttr("init_if_needed", "associated_token::mint = m"),
    TokenAttr("init", "token::mint = m"),
    << ATTR_OPEN, "init_if_needed", ATTR_CLOSE >>,
    << ATTR_OPEN, "constraint = t.delegate.is_none()", ATTR_CLOSE >>,
    << ATTR_OPEN, "constraint = t.close_authority.is_none()", ATTR_CLOSE >>,
    << ATTR_OPEN, "init_if_needed", ",", SP, "token::mint = m", ",", SP,
       "constraint = f(g(h(x)))", ATTR_CLOSE >>,
    << ATTR_OPEN, "init_if_needed", "," >>,
    << SP, "token::mint = m", ATTR_CLOSE >>,
    << "pub", SP, "vault: Account<'info, Vault>", "," >> }

InitInitIfNeeded ==
  /\ \E ls \in SeqsUpTo(AttrLineAlphabet, MaxAttrLines) : content = Lines(ls)
  /\ blocks = <<>>
  /\ pc = "start"
  /\ ParseIdle
  /\ EngineIdle
  /\ WalkIdle
  /\ OracleIdle
  /\ SynthIdle
  /\ ClientIdle

\* InitIfNeededPattern().scan("<input>", content)
RunInitIfNeeded ==
  /\ pc = "start"
  /\ det_out' = << InitIfNeededScan("<input>", content) >>
  /\ pc' = "scanned"
  /\ UNCHANGED <<blockVars, parseVars, engineVars, walkVars, oracleVars, synthVars, clientVars>>

NextInitIfNeeded == RunInitIfNeeded

SpecInitIfNeeded == InitInitIfNeeded /\ [][NextInitIfNeeded]_vars

\* ---- Detector A and the distance of the constraints ---------------------
\* where a constraint stands relative to the flagged attribute, in lines
Offsets == {d \in (0 - MaxDistance)..MaxDistance : d # 0}

\* line k of a file that has the flagged attribute on line 0 and the two
\* constraints dd and dc lines from it
WindowLine(k, dd, dc) ==
  (IF k = 0 THEN TokenAttr("init_if_needed", "token::mint = m") ELSE <<>>)
    \o (IF k = dd THEN << ATTR_OPEN, "constraint = t.delegate.is_none()", ATTR_CLOSE >>
        ELSE <<>>)
    \o (IF k = dc THEN << ATTR_OPEN, "constraint = t.close_authority.is_none()", ATTR_CLOSE >>
        ELSE <<>>)

\* the file from its first to its last non-empty line
WindowText(dd, dc) ==
  LET lo == Min(0, Min(dd, dc))
      hi == Max(0, Max(dd, dc))
  IN Lines([n \in 1..(hi - lo + 1) |-> WindowLine(lo + n - 1, dd, dc)])

InitContextWindow ==
  /\ \E dd, dc \in Offsets : content = WindowText(dd, dc)
  /\ blocks = <<>>
  /\ pc = "start"
  /\ ParseIdle
  /\ EngineIdle
  /\ WalkIdle
  /\ OracleIdle
  /\ SynthIdle
  /\ ClientIdle

SpecContextWindow == InitContextWindow /\ [][NextInitIfNeeded]_vars

(***************************************************************************)
(* Specification of the struct-based detectors on damaged sources          *)
(***************************************************************************)
StructuralChunks == {MARKER, "pub struct A", "pub struct B", OPEN_BRACE, CLOSE_BRACE}

\* text with the chunks at the positions in S taken out
Without(text, S) ==
  LET keep == {k \in 1..Len(text) : k \notin S}
      RECURSIVE Take(_)
      Take(k) == IF k > Len(text) THEN <<>>
                 ELSE (IF k \in keep THEN << text[k] >> ELSE <<>>) \o Take(k + 1)
  IN Take(1)

\* a sample with any of its markers, headers and braces missing
Damaged(text) ==
  {Without(text, S) : S \in SUBSET {k \in 1..Len(text) : text[k] \in StructuralChunks}}

DamagedAlphabet ==
  {MARKER, "pub struct A", OPEN_BRACE, CLOSE_BRACE, NL, "data: AccountInfo<'info>"}

InitStructScan ==
  /\ content \in SeqsUpTo(DamagedAlphabet, MaxDamaged)
                   \cup Damaged(SampleWithdraw) \cup Damaged(SampleLifecycle)
  /\ blocks = <<>>
  /\ pc = "start"
  /\ ParseIdle
  /\ EngineIdle
  /\ WalkIdle
  /\ OracleIdle
  /\ SynthIdle
  /\ ClientIdle

\* the scan of the next struct-based detector, ANCHOR-002 to ANCHOR-006
RunStructDetector ==
  /\ pc = "blocks"
  /\ Len(det_out) + 1 < Len(ALL_PATTERNS)
  /\ \E seed \in HashSeeds :
       det_out' = Append(det_out, PatternScan(Len(det_out) + 2, "<input>", content, seed))
  /\ UNCHANGED <<blockVars, pc, parseVars, engineVars, walkVars, oracleVars, synthVars, clientVars>>

NextStructScan == FindBlocks \/ RunStructDetector

SpecStructScan == InitStructScan /\ [][NextStructScan]_vars

(***************************************************************************)
(* Specifications of the struct-based detectors on one block               *)
(***************************************************************************)
\* the text of a block with the given header and body lines
Block(header, body_lines) ==
  Lines(<< << MARKER >>, << header, SP, OPEN_BRACE >> >> \o body_lines
          \o << << CLOSE_BRACE >> >>)

FieldLine(decl) == << SP, "pub", SP, decl, "," >>

ReallocLineAlphabet ==
  { << SP, ATTR_OPEN, "mut", ",", SP, "realloc::payer = payer", ATTR_CLOSE >>,
    << SP, ATTR_OPEN, "mut", ",", SP, "realloc::payer = funder", ATTR_CLOSE >>,
    << SP, ATTR_OPEN, "signer", ATTR_CLOSE >>,
    FieldLine("vault: Account<'info, Vault>"),
    FieldLine("payer: AccountInfo<'info>"),
    FieldLine("payer: Signer<'info>"),
    << SP, "// payer: Signer<'info>", "," >>,
    << SP, "// payer: AccountInfo<'info>", "," >>,
    << SP, "/// doc" >> }

InitRealloc ==
  /\ \E ls \in SeqsUpTo(ReallocLineAlphabet, MaxBodyLines) :
       content = Block("pub struct A", ls)
  /\ blocks = <<>>
  /\ pc = "start"
  /\ ParseIdle
  /\ EngineIdle
  /\ WalkIdle
  /\ OracleIdle
  /\ SynthIdle
  /\ ClientIdle

\* ReallocPayerPattern().scan("<input>", content)
RunReallocPayer ==
  /\ pc = "start"
  /\ det_out' = << ReallocPayerScan("<input>", content) >>
  /\ pc' = "scanned"
  /\ UNCHANGED <<blockVars, parseVars, engineVars, walkVars, oracleVars, synthVars, clientVars>>

NextRealloc == RunReallocPayer

SpecRealloc == InitRealloc /\ [][NextRealloc]_vars

\* ---- Detector C and the signer marker of the payer ------------------------
SignerLineAlphabet ==
  { << SP, ATTR_OPEN, "signer", ATTR_CLOSE >>,
    << SP, ATTR_OPEN, "mut", ",", SP, "signer", ATTR_CLOSE >>,
    << SP, ATTR_OPEN, "signer", ",", SP, "mut", ATTR_CLOSE >>,
    << SP, ATTR_OPEN, "mut", ATTR_CLOSE >>,
    << SP, "/// the signer" >>,
    << SP, "/// doc" >>,
    FieldLine("payer: AccountInfo<'info>") }

\* a block that resizes vault at the expense of payer, followed by the lines
InitReallocSigner ==
  /\ \E ls \in SeqsUpTo(SignerLineAlphabet, MaxBodyLines) :
       content =
         Block("pub struct A",
               << << SP, ATTR_OPEN, "mut", ",", SP, "realloc::payer = payer", ATTR_CLOSE >>,
                  FieldLine("vault: Account<'info, Vault>") >> \o ls)
  /\ blocks = <<>>
  /\ pc = "start"
  /\ ParseIdle
  /\ EngineIdle
  /\ WalkIdle
  /\ OracleIdle
  /\ SynthIdle
  /\ ClientIdle

SpecReallocSigner == InitReallocSigner /\ [][NextRealloc]_vars

CloseReinitLineAlphabet ==
  { << SP, ATTR_OPEN, "mut", ",", SP, "close = dest", ATTR_CLOSE >>,
    << SP, ATTR_OPEN, "init_if_needed", ATTR_CLOSE >>,
    << SP, ATTR_OPEN, "init_if_needed", ",", SP, "close = dest", ATTR_CLOSE >>,
    FieldLine("vault: Account<'info, Vault>"),
    FieldLine("stake: Account<'info, Stake>"),
    << SP, "// TODO: fix" >> }

\* two blocks sharing the body lines: the first n lines in A, the rest in B
TwoBlocks(ls, n) ==
  Block("pub struct A", SubSeq(ls, 1, n)) \o << NL >>
    \o Block("pub struct B", SubSeq(ls, n + 1, Len(ls)))

InitCloseReinit ==
  /\ \E ls \in SeqsUpTo(CloseReinitLineAlphabet, MaxBodyLines) :
       \E n \in 0..Len(ls) : content = TwoBlocks(ls, n)
  /\ blocks = <<>>
  /\ pc = "start"
  /\ ParseIdle
  /\ det_out = <<>>
  /\ entry = "none"
  /\ target = "none"
  /\ files = <<>>
  /\ fi = 0
  /\ pi = 0
  /\ all_findings = <<>>
  /\ report = NoReport
  /\ raised = {}
  /\ hash_seed \in HashSeeds
  /\ prev_findings = <<>>
  /\ runs = 0
  /\ WalkIdle
  /\ OracleIdle
  /\ SynthIdle
  /\ ClientIdle

\* CloseReinitPattern().scan("<input>", content)
RunCloseReinit ==
  /\ pc = "start"
  /\ det_out' = << CloseReinitScan("<input>", content, hash_seed) >>
  /\ pc' = "scanned"
  /\ UNCHANGED <<blockVars, parseVars, engineVars, walkVars, oracleVars, synthVars, clientVars>>

NextCloseReinit == RunCloseReinit

SpecCloseReinit == InitCloseReinit /\ [][NextCloseReinit]_vars

(***************************************************************************)
(* Detector B on block bodies                                              *)
(***************************************************************************)
DuplicateMutableLineAlphabet ==
  { << SP, ATTR_OPEN, "init_if_needed", ATTR_CLOSE >>,
    << SP, ATTR_OPEN, "mut", ATTR_CLOSE >>,
    << SP, ATTR_OPEN, "init_if_needed", ",", SP, "mut", ATTR_CLOSE >>,
    FieldLine("vault: Account<'info, Vault>"),
    FieldLine("stake: Account<'info, Stake>"),
    FieldLine("mint: InterfaceAccount<'info, Vault>"),
    << SP, "// TODO: fix" >> }

InitDuplicateMutable ==
  /\ \E ls \in SeqsUpTo(DuplicateMutableLineAlphabet, MaxPairLines) :
       \E n \in 0..Len(ls) : content = TwoBlocks(ls, n)
  /\ blocks = <<>>
  /\ pc = "start"
  /\ ParseIdle
  /\ det_out = <<>>
  /\ EngineIdle
  /\ WalkIdle
  /\ OracleIdle
  /\ SynthIdle
  /\ ClientIdle

\* DuplicateMutablePattern().scan("<input>", content)
RunDuplicateMutable ==
  /\ pc = "start"
  /\ det_out' = << DuplicateMutableScan("<input>", content) >>
  /\ pc' = "scanned"
  /\ UNCHANGED <<blockVars, parseVars, engineVars, walkVars, oracleVars, synthVars, clientVars>>

NextDuplicateMutable == RunDuplicateMutable

SpecDuplicateMutable == InitDuplicateMutable /\ [][NextDuplicateMutable]_vars

MissingOwnerLineAlphabet ==
  { FieldLine("data: AccountInfo<'info>"),
    FieldLine("data: UncheckedAccount<'info>"),
    FieldLine("system_program: AccountInfo<'info>"),
    FieldLine("token_program: UncheckedAccount<'info>"),
    FieldLine("my_program: AccountInfo<'info>"),
    << SP, ATTR_OPEN, "mut", ATTR_CLOSE >>,
    << SP, ATTR_OPEN, "signer", ATTR_CLOSE >>,
    << SP, ATTR_OPEN, "owner = crate::ID", ATTR_CLOSE >>,
    << SP, "/// CHECK: safe" >>,
    << SP, "// note" >>,
    << >> }

InitMissingOwner ==
  /\ \E ls \in SeqsUpTo(MissingOwnerLineAlphabet, MaxBodyLines) :
       content = Block("pub struct A", ls)
  /\ blocks = <<>>
  /\ pc = "start"
  /\ ParseIdle
  /\ EngineIdle
  /\ WalkIdle
  /\ OracleIdle
  /\ SynthIdle
  /\ ClientIdle

\* MissingOwnerPattern().scan("<input>", content)
RunMissingOwner ==
  /\ pc = "start"
  /\ det_out' = << MissingOwnerScan("<input>", content) >>
  /\ pc' = "scanned"
  /\ UNCHANGED <<blockVars, parseVars, engineVars, walkVars, oracleVars, synthVars, clientVars>>

NextMissingOwner == RunMissingOwner

SpecMissingOwner == InitMissingOwner /\ [][NextMissingOwner]_vars

\* ---- Detector F and the attributes of the field itself --------------------
OwnAttrLineAlphabet ==
  { FieldLine("data: AccountInfo<'info>"),
    FieldLine("vault: Account<'info, Vault>"),
    << SP, ATTR_OPEN, "signer", ATTR_CLOSE >>,
    << SP, ATTR_OPEN, "mut", "," >>,
    << SP, "owner = crate::ID", ATTR_CLOSE >>,
    << SP, "/// CHECK: safe" >>,
    << >> }

InitOwnAttrs ==
  /\ \E ls \in SeqsUpTo(OwnAttrLineAlphabet, MaxBodyLines) :
       content = Block("pub struct A", ls)
  /\ blocks = <<>>
  /\ pc = "start"
  /\ ParseIdle
  /\ EngineIdle
  /\ WalkIdle
  /\ OracleIdle
  /\ SynthIdle
  /\ ClientIdle

SpecOwnAttrs == InitOwnAttrs /\ [][NextMissingOwner]_vars

\* ---- Detector D and the lines around a raw-handle field -------------------
Reaches == {d \in (0 - MaxReach)..MaxReach : d # 0}

VouchingLines ==
  { << SP, ATTR_OPEN, "signer", ATTR_CLOSE >>,
    << SP, ATTR_OPEN, "owner = crate::ID", ATTR_CLOSE >>,
    << SP, "/// CHECK: safe" >>,
    << SP, ATTR_OPEN, "mut", ATTR_CLOSE >> }

RawFieldLines ==
  { FieldLine("data: AccountInfo<'info>"), FieldLine("data: UncheckedAccount<'info>") }

\* the body of a block with the field on line 0 and the line v on line d,
\* empty lines between the two
ReachBody(d, v, f) ==
  [n \in 1..(Max(0, d) - Min(0, d) + 1) |->
     LET k == Min(0, d) + n - 1
     IN IF k = 0 THEN f ELSE IF k = d THEN v ELSE <<>>]

InitCosplayWindow ==
  /\ \E d \in Reaches, v \in VouchingLines, f \in RawFieldLines :
       content = Block("pub struct A", ReachBody(d, v, f))
  /\ blocks = <<>>
  /\ pc = "start"
  /\ ParseIdle
  /\ EngineIdle
  /\ WalkIdle
  /\ OracleIdle
  /\ SynthIdle
  /\ ClientIdle

\* TypeCosplayPattern().scan("<input>", content)
RunTypeCosplay ==
  /\ pc = "start"
  /\ det_out' = << TypeCosplayScan("<input>", content) >>
  /\ pc' = "scanned"
  /\ UNCHANGED <<blockVars, parseVars, engineVars, walkVars, oracleVars, synthVars, clientVars>>

NextTypeCosplay == RunTypeCosplay

SpecCosplayWindow == InitCosplayWindow /\ [][NextTypeCosplay]_vars

\* ---- The header of a block and the lines of its fields --------------------
\* the lines from the marker to the open brace: header on the line after the
\* marker, on the marker's line, after a doc line, after an annotation, and
\* with the brace on a line of its own
Placements ==
  { << << MARKER >>, << "pub struct A", SP, OPEN_BRACE >> >>,
    << << MARKER, SP, "pub struct A", SP, OPEN_BRACE >> >>,
    << << MARKER >>, << "/// doc" >>, << "pub struct A", SP, OPEN_BRACE >> >>,
    << << MARKER >>, << ATTR_OPEN, "mut", ATTR_CLOSE >>, << "pub struct A", SP, OPEN_BRACE >> >>,
    << << MARKER >>, << "pub struct A" >>, << OPEN_BRACE >> >> }

PlacementLineAlphabet ==
  { << SP, ATTR_OPEN, "mut", ",", SP, "realloc::payer = payer", ATTR_CLOSE >>,
    << SP, ATTR_OPEN, "mut", ATTR_CLOSE >>,
    << SP, ATTR_OPEN, "mut", ",", SP, "close = dest", ATTR_CLOSE >>,
    << SP, ATTR_OPEN, "init_if_needed", ATTR_CLOSE >>,
    FieldLine("vault: Account<'info, Vault>"),
    FieldLine("payer: AccountInfo<'info>"),
    FieldLine("data: AccountInfo<'info>") }

InitPlacement ==
  /\ \E head \in Placements, ls \in SeqsUpTo(PlacementLineAlphabet, MaxBodyLines) :
       content = Lines(head \o ls \o << << CLOSE_BRACE >> >>)
  /\ blocks = <<>>
  /\ pc = "start"
  /\ ParseIdle
  /\ EngineIdle
  /\ WalkIdle
  /\ OracleIdle
  /\ SynthIdle
  /\ ClientIdle

SpecPlacement == InitPlacement /\ [][NextStructScan]_vars

(***************************************************************************)
(* C1                                                                      *)
(***************************************************************************)
\* net brace depth of text[a..b]
Net(text, a, b) ==
  Cardinality({k \in a..b : text[k] = OPEN_BRACE})
    - Cardinality({k \in a..b : text[k] = CLOSE_BRACE})

\* the close brace matching the open brace at b: the first index after b at
\* which the net depth counted from b returns to zero (0 when there is none)
MatchingClose(text, b) ==
  LET cs == {c \in (b + 1)..Len(text) : Net(text, b, c) = 0}
  IN IF cs = {} THEN 0 ELSE CHOOSE c \in cs : \A d \in cs : c <= d

ExpectedBody(text, m) ==
  LET h == StructMatch(text, m)
      b == BraceStart(text, h)
      c == MatchingClose(text, b)
  IN IF h = 0 \/ b = 0 \/ c = 0 THEN <<>> ELSE << SubSeq(text, b + 1, c - 1) >>

RECURSIVE ExpectedBodies(_, _)
ExpectedBodies(text, m) ==
  IF m > Len(text) THEN <<>>
  ELSE (IF text[m] = MARKER THEN ExpectedBody(text, m) ELSE <<>>)
         \o ExpectedBodies(text, m + 1)

Balanced(body) ==
  /\ Net(body, 1, Len(body)) = 0
  /\ \A k \in 1..Len(body) : Net(body, 1, k) >= 0

\* C1: every returned body is the text strictly between the first open brace
\* after the header and the close brace matching it under depth counting: it
\* never ends at an inner close brace and never runs past the matching one.
C1_BodyIsMatchedBraceSpan ==
  pc = "blocks" =>
    /\ [k \in 1..Len(blocks) |-> blocks[k].body] = ExpectedBodies(content, 1)
    /\ \A k \in 1..Len(blocks) : Balanced(blocks[k].body)

C1_Witness ==
  /\ pc = "blocks"
  /\ \E k \in 1..Len(blocks) :
       \E a, b \in 1..Len(blocks[k].body) :
         /\ a < b
         /\ blocks[k].body[a] = OPEN_BRACE
         /\ blocks[k].body[b] = CLOSE_BRACE
         /\ b < Len(blocks[k].body)

(***************************************************************************)
(* C2, C3: the line structure of a body, stated on the text alone          *)
(***************************************************************************)
Stripped(k) == Strip(lines[k])

RECURSIVE SumDelta(_, _)
SumDelta(a, b) == IF a > b THEN 0 ELSE ParenDelta(Stripped(a)) + SumDelta(a + 1, b)

\* line k lies inside an attribute opened on an earlier line and not yet closed
Inside(k) ==
  \E a \in 1..(k - 1) :
    /\ StartsWithAttr(Stripped(a))
    /\ \A m \in a..(k - 1) : SumDelta(a, m) > 0

\* the kind of body line k, from the text
LineClass(k) ==
  IF Inside(k) \/ StartsWithAttr(Stripped(k)) THEN "attr"
  ELSE IF StartsWithDoc(Stripped(k)) THEN "doc"
  ELSE IF FieldMatch(Stripped(k)) # 0 THEN "field"
  ELSE IF Stripped(k) = <<>> THEN "blank"
  ELSE IF StartsWithComment(Stripped(k)) THEN "comment"
  ELSE "reset"

\* lines a .. a+N-1 are one attribute: it opens outside any other attribute
\* and its parentheses balance on its N-th line, not before
Attribute(a, N) ==
  /\ ~Inside(a)
  /\ StartsWithAttr(Stripped(a))
  /\ \A m \in a..(a + N - 2) : SumDelta(a, m) > 0
  /\ SumDelta(a, a + N - 1) = 0

\* the source line number parse_fields gives to body line k
LineNo(k) == struct_start + k

FieldsAt(k) == {f \in 1..Len(fields) : fields[f].line = LineNo(k)}

\* the lines a..b, stripped
StrippedRun(a, b) == [k \in 1..(b - a + 1) |-> Stripped(a + k - 1)]

ContainsRun(text, run) ==
  \E p \in 0..(Len(text) - Len(run)) : SubSeq(text, p + 1, p + Len(run)) = run

\* the lines of ls whose index is in S, in order
RECURSIVE Pick(_, _, _)
Pick(ls, S, k) ==
  IF k > Len(ls) THEN <<>>
  ELSE (IF k \in S THEN << ls[k] >> ELSE <<>>) \o Pick(ls, S, k + 1)

\* text is made of lines of a..b only
MadeOfLines(text, a, b) ==
  \E S \in SUBSET (1..(b - a + 1)) : text = JoinLines(Pick(StrippedRun(a, b), S, 1))

LastClear(j) ==
  LET cs == {k \in 1..(j - 1) : LineClass(k) \in {"field", "reset"}}
  IN IF cs = {} THEN 0 ELSE CHOOSE k \in cs : \A m \in cs : m <= k

\* C3: the pending attribute list is empty right after a field is emitted and
\* right after a line that is neither blank, comment, attribute nor field, and
\* the attribute text of every emitted field is made of exactly the attribute
\* and doc-comment lines between the previous field or reset line and the field.
C3_NoAttributeLeak ==
  LET n == Len(lines) IN
  /\ n > 0 /\ (FieldsAt(n) # {} \/ LineClass(n) = "reset") => current_attrs = <<>>
  /\ \A f \in 1..Len(fields) :
       LET j == fields[f].line - struct_start
           r == LastClear(j)
       IN fields[f].attrs =
            JoinLines(Pick(StrippedRun(r + 1, j - 1),
                           {k \in 1..(j - 1 - r) : LineClass(r + k) \in {"attr", "doc"}}, 1))

C3_Witness ==
  /\ Len(lines) = 4
  /\ LineClass(1) = "attr" /\ LineClass(2) = "reset"
  /\ LineClass(3) = "doc" /\ LineClass(4) = "field"
  /\ current_attrs = <<>>
  /\ Len(fields) = 1
  /\ fields[1].attrs = Stripped(3)

(***************************************************************************)
(* C8, C9: the score and the summary of a list of findings                 *)
(***************************************************************************)
CountSeverity(findings, severity) ==
  Cardinality({k \in 1..Len(findings) : findings[k].severity = severity})

CountPattern(findings, id) ==
  Cardinality({k \in 1..Len(findings) : findings[k].id = id})

WeightedTotal(findings) ==
  10 * CountSeverity(findings, "Critical") + 5 * CountSeverity(findings, "High")
    + 2 * CountSeverity(findings, "Medium") + CountSeverity(findings, "Low")

RECURSIVE SumValues(_)
SumValues(d) ==
  IF DOMAIN d = {} THEN 0
  ELSE LET key == CHOOSE x \in DOMAIN d : TRUE
       IN d[key] + SumValues([x \in DOMAIN d \ {key} |-> d[x]])

\* C8: with total = 10*#Critical + 5*#High + 2*#Medium + #Low, the score is A
\* iff there are no findings, B+ iff 1 <= total < 5, B iff 5 <= total < 10,
\* C iff 10 <= total < 15, D iff 15 <= total < 20 and F iff total >= 20.
C8_ScoreBuckets ==
  pc \in {"summary", "done"} =>
    LET total == WeightedTotal(all_findings)
        score == report.security_score
    IN /\ (score = "A") <=> (all_findings = <<>>)
       /\ (score = "B+") <=> (1 <= total /\ total < 5)
       /\ (score = "B") <=> (5 <= total /\ total < 10)
       /\ (score = "C") <=> (10 <= total /\ total < 15)
       /\ (score = "D") <=> (15 <= total /\ total < 20)
       /\ (score = "F") <=> (total >= 20)

C8_Witness ==
  /\ pc = "summary"
  /\ report.security_score = "F"
  /\ WeightedTotal(all_findings) = 20
  /\ CountSeverity(all_findings, "Critical") = 2

\* C9: by_severity has exactly the keys Critical, High, Medium and Low, zero
\* when absent; by_pattern has a key exactly for each pattern id that occurs;
\* total = number of findings = sum of by_severity = sum of by_pattern.
C9_SummaryShape ==
  pc = "done" =>
    LET summary == report.summary
    IN /\ DOMAIN summary.by_severity = SEVERITIES
       /\ \A severity \in SEVERITIES :
            summary.by_severity[severity] = CountSeverity(all_findings, severity)
       /\ DOMAIN summary.by_pattern =
            {all_findings[k].id : k \in 1..Len(all_findings)}
       /\ \A id \in DOMAIN summary.by_pattern :
            summary.by_pattern[id] = CountPattern(all_findings, id)
       /\ summary.total = Len(all_findings)
       /\ summary.total = SumValues(summary.by_severity)
       /\ summary.total = SumValues(summary.by_pattern)

C9_Witness ==
  /\ pc = "done"
  /\ entry = "scan_content"
  /\ Len(all_findings) = 3
  /\ report.summary.by_severity["Critical"] = 0
  /\ report.summary.by_severity["Medium"] = 2
  /\ DOMAIN report.summary.by_pattern = {"ANCHOR-004"}

(***************************************************************************)
(* C5, C6, C7: the engine's loops                                          *)
(***************************************************************************)
\* what the detector p returns on the file f
PairResult(f, p) == PatternScan(p, ScanPath(f), files[f].content, hash_seed)

\* the (file, detector) pairs of the call, and those whose scan returned
Pairs ==
  {<<f, p>> \in (1..Len(files)) \X (1..Len(ALL_PATTERNS)) : files[f].readable}
Returned == Pairs \ raised

Before(x, y) == x[1] < y[1] \/ (x[1] = y[1] /\ x[2] < y[2])

\* the results of a set of pairs, however they were obtained, merged by file
\* order and then detector order
RECURSIVE MergeByOrder(_)
MergeByOrder(S) ==
  IF S = {} THEN <<>>
  ELSE LET first == CHOOSE x \in S : \A y \in S \ {x} : Before(x, y)
       IN PairResult(first[1], first[2]) \o MergeByOrder(S \ {first})

RECURSIVE TotalLen(_)
TotalLen(S) ==
  IF S = {} THEN 0
  ELSE LET x == CHOOSE y \in S : TRUE
       IN Len(PairResult(x[1], x[2])) + TotalLen(S \ {x})

\* C5: when a detector raises on a (file, detector) pair, the findings
\* collected so far stay as they are and the loop goes on; no such exception
\* leaves the call; the report returned holds the findings of every pair
\* that did not raise.
C5_ExceptionIsolation ==
  /\ [][raised' # raised =>
          /\ all_findings' = all_findings
          /\ pc' \in {"scan", "open", "finish"}]_vars
  /\ [](pc = "raised" => raised = {})
  /\ [](pc = "done" =>
          /\ report # NoReport
          /\ report.findings = all_findings
          /\ Len(report.findings) = TotalLen(Returned))

C5_Witness ==
  /\ pc = "done"
  /\ \E x \in raised :
       /\ PairResult(x[1], x[2]) # <<>>
       /\ \E y \in Returned : Before(y, x) /\ PairResult(y[1], y[2]) # <<>>
       /\ \E y \in Returned : Before(x, y) /\ PairResult(y[1], y[2]) # <<>>

\* C6: a second scan of the same content, by the same process or by another
\* one, returns the findings of the first scan, in the same order.
C6_RescanIdentical ==
  (pc = "done" /\ runs >= 2) => report.findings = prev_findings

Recognizable(text) ==
  \E m \in {k \in 1..Len(text) : text[k] = MARKER} :
    \E h \in {k \in (m + 1)..Len(text) : IsHeader(text[k])} :
      \E b \in {k \in (h + 1)..Len(text) : text[k] = OPEN_BRACE} :
        MatchingClose(text, b) # 0

\* C4: on a source text with no recognizable block (no marker, or a marker
\* without header, open brace or matching close brace; the empty text too)
\* find_blocks returns the empty sequence and each of the detectors B to F
\* returns the empty list.
C4_NoBlockNoFinding ==
  (pc = "blocks" /\ ~Recognizable(content)) =>
    /\ blocks = <<>>
    /\ \A k \in 1..Len(det_out) : det_out[k] = <<>>

C4_Witness ==
  /\ pc = "blocks"
  /\ Len(det_out) = Len(ALL_PATTERNS) - 1
  /\ ~Recognizable(content)
  /\ \E m \in 1..Len(content) : content[m] = MARKER
  /\ \E h \in 1..Len(content) : IsHeader(content[h])
  /\ \E b \in 1..Len(content) : content[b] = OPEN_BRACE
  /\ \E k \in 1..Len(content) : IsAccountInfoDecl(content[k])

(***************************************************************************)
(* C10: Detector A on every account attribute                              *)
(***************************************************************************)
ParenNet(text, a, b) ==
  LET RECURSIVE S(_)
      S(k) == IF k > b THEN 0 ELSE OpenParens(text[k]) - CloseParens(text[k]) + S(k + 1)
  IN S(a)

\* the ")]" that closes the attribute opened at i, 0 when it is never closed
AttributeEnd(text, i) ==
  LET js == {j \in (i + 1)..Len(text) : text[j] = ATTR_CLOSE /\ ParenNet(text, i, j) = 0}
  IN IF js = {} THEN 0 ELSE CHOOSE j \in js : \A o \in js : j <= o

\* the account attributes of a text, from index i on
RECURSIVE Attributes(_, _)
Attributes(text, i) ==
  IF i > Len(text) THEN <<>>
  ELSE IF text[i] = ATTR_OPEN /\ AttributeEnd(text, i) # 0
       THEN << [start |-> i, end |-> AttributeEnd(text, i)] >>
              \o Attributes(text, AttributeEnd(text, i) + 1)
  ELSE Attributes(text, i + 1)

LineOf(text, i) == 1 + Cardinality({k \in 1..(i - 1) : text[k] = NL})

ExpectedInitIfNeeded(text) ==
  LET as == Attributes(text, 1)
      Inner(a) == SubSeq(text, a.start + 1, a.end - 1)
      Window(a) == ContextBlock(text, LineOf(text, a.start))
      Reported(a) ==
        /\ AnyChunk(Inner(a), LAMBDA c : c = "init_if_needed")
        /\ AnyChunk(Inner(a), LAMBDA c : c \in {"token::mint = m", "associated_token::mint = m"})
        /\ ~ (/\ AnyChunk(Window(a), LAMBDA c : c = "constraint = t.delegate.is_none()")
              /\ AnyChunk(Window(a), LAMBDA c : c = "constraint = t.close_authority.is_none()"))
  IN Flatten([k \in 1..Len(as) |->
        IF Reported(as[k])
        THEN << [id |-> "ANCHOR-001", severity |-> "High", line |-> LineOf(text, as[k].start)] >>
        ELSE <<>>])

\* C10: every account attribute holding init_if_needed and a token or
\* associated-token marker yields one finding ANCHOR-001 of severity High,
\* unless both the delegate and the close-authority constraints are in the
\* context window; no other attribute (plain init among them) yields one.
C10_EveryTokenInitIfNeeded ==
  pc = "scanned" =>
    [k \in 1..Len(det_out[1]) |->
       [id |-> det_out[1][k].id, severity |-> det_out[1][k].severity,
        line |-> det_out[1][k].line]]
      = ExpectedInitIfNeeded(content)

(***************************************************************************)
(* C11: Detector C on the lines of one block                               *)
(***************************************************************************)
\* the lines of the scanned text; line n of the file is FileLines[n]; the
\* operators below take them as fl
FileLines == SplitLines(content)

IsCommentLine(fl, n) == StartsWithComment(Strip(fl[n])) /\ ~StartsWithDoc(Strip(fl[n]))
IsAttrLine(fl, n) == StartsWithAttr(Strip(fl[n]))
IsDocLine(fl, n) == StartsWithDoc(Strip(fl[n]))

\* line n declares a field named p: a line that is neither a comment nor an
\* attribute and spells  p: Type
Declares(fl, n, p) ==
  /\ ~IsCommentLine(fl, n) /\ ~IsAttrLine(fl, n) /\ ~IsDocLine(fl, n)
  /\ \E k \in 1..Len(fl[n]) : ColonName(fl[n][k]) = p

DeclaredType(fl, n) ==
  LET k == CHOOSE j \in 1..Len(fl[n]) : ColonName(fl[n][j]) # ""
  IN ColonRest(fl[n][k])

\* the attribute, doc, comment and blank lines right above line n
RECURSIVE AttachedFrom(_, _)
AttachedFrom(fl, n) ==
  IF n < 1 THEN {}
  ELSE IF IsAttrLine(fl, n) \/ IsDocLine(fl, n) \/ IsCommentLine(fl, n) \/ Strip(fl[n]) = <<>>
       THEN {n} \cup AttachedFrom(fl, n - 1)
  ELSE {}
Attached(fl, n) == AttachedFrom(fl, n - 1)

CarriesSigner(fl, n) ==
  \E a \in Attached(fl, n) : IsAttrLine(fl, a) /\ \E k \in 1..Len(fl[a]) : fl[a][k] = "signer"

\* the resize directives of the block: attribute lines naming a payer
DirectivePayer(fl, n) ==
  LET ks == {k \in 1..Len(fl[n]) :
               fl[n][k] \in {"realloc::payer = payer", "realloc::payer = funder"}}
  IN IF ~IsAttrLine(fl, n) \/ ks = {} THEN ""
     ELSE IF \E k \in ks : fl[n][k] = "realloc::payer = payer" THEN "payer"
     ELSE "funder"

FindingsAt(out, n) == Cardinality({k \in 1..Len(out) : out[k].line = n})

\* C11: a directive naming a payer declared in the block with a type other
\* than the signer wrapper and without signer attribute yields exactly one
\* finding ANCHOR-003 of severity Medium; with the payer declared as
\* Signer<'info>, or not declared in the block, it yields none.
C11_ReallocPayer ==
  pc = "scanned" =>
    LET fl == FileLines
        out == det_out[1]
        decls(p) == {n \in 1..Len(fl) : Declares(fl, n, p)}
    IN /\ \A k \in 1..Len(out) : out[k].id = "ANCHOR-003" /\ out[k].severity = "Medium"
       /\ \A n \in 1..Len(fl) :
            LET p == DirectivePayer(fl, n)
            IN /\ (p # "" /\ decls(p) = {}) => FindingsAt(out, n) = 0
               /\ (p # "" /\ Cardinality(decls(p)) = 1) =>
                    LET d == CHOOSE x \in decls(p) : TRUE
                    IN /\ DeclaredType(fl, d) = "Signer<'info>" => FindingsAt(out, n) = 0
                       /\ (DeclaredType(fl, d) # "Signer<'info>" /\ ~CarriesSigner(fl, d))
                            => FindingsAt(out, n) = 1

(***************************************************************************)
(* C12: Detector E counts the overlapping base types                       *)
(***************************************************************************)
\* line n declares a field of any name
DeclaresField(fl, n) ==
  /\ ~IsCommentLine(fl, n) /\ ~IsAttrLine(fl, n) /\ ~IsDocLine(fl, n)
  /\ \E k \in 1..Len(fl[n]) : ColonName(fl[n][k]) # ""

\* the inner T of the declared Account<'info, T> or InterfaceAccount<'info, T>,
\* "" for another type
DeclaredBase(fl, n) ==
  CASE DeclaredType(fl, n) \in {"Account<'info, Vault>", "InterfaceAccount<'info, Vault>"}
         -> "Vault"
    [] DeclaredType(fl, n) = "Account<'info, Stake>" -> "Stake"
    [] OTHER -> ""

\* the field declared on line n carries the word in one of its attributes
Carries(fl, n, word) ==
  \E a \in Attached(fl, n) : IsAttrLine(fl, a) /\ \E k \in 1..Len(fl[a]) : fl[a][k] = word

OverlappingTypes(fl) ==
  {t \in {"Vault", "Stake"} :
     /\ \E n \in 1..Len(fl) :
          DeclaresField(fl, n) /\ DeclaredBase(fl, n) = t /\ Carries(fl, n, "close = dest")
     /\ \E n \in 1..Len(fl) :
          DeclaresField(fl, n) /\ DeclaredBase(fl, n) = t /\ Carries(fl, n, "init_if_needed")}

\* C12: the number of ANCHOR-005 findings of a file is the number of distinct
\* base types that occur on a field with a close attribute and on a field
\* with init_if_needed, over all its blocks and whatever their order.
C12_OnePerOverlappingType ==
  pc = "scanned" =>
    LET fl == FileLines
    IN /\ \A k \in 1..Len(det_out[1]) : det_out[1][k].id = "ANCHOR-005"
       /\ Len(det_out[1]) = Cardinality(OverlappingTypes(fl))

(***************************************************************************)
(* C13: Detector F, the allow-list and the data field                      *)
(***************************************************************************)
RawHandleTypes == {"AccountInfo<'info>", "UncheckedAccount<'info>"}

\* some attribute or doc comment of the field declared on line n has a
\* signer marker, an owner constraint or a CHECK comment
Vouched(fl, n) ==
  \E a \in Attached(fl, n) :
    \E k \in 1..Len(fl[a]) :
      fl[a][k] \in {"signer", "owner = crate::ID", "/// CHECK: safe"}

\* C13: in a block a raw-handle field named system_program or with a name
\* ending in _program is never flagged, and a raw-handle field named data
\* without signer marker, owner constraint and CHECK comment gets exactly
\* one finding ANCHOR-006 of severity High.
C13_AllowListAndData ==
  pc = "scanned" =>
    LET fl == FileLines
        out == det_out[1]
    IN \A n \in 1..Len(fl) :
         /\ (\E p \in {"system_program", "token_program", "my_program"} : Declares(fl, n, p))
              => FindingsAt(out, n) = 0
         /\ (Declares(fl, n, "data") /\ DeclaredType(fl, n) \in RawHandleTypes /\ ~Vouched(fl, n))
              => /\ FindingsAt(out, n) = 1
                 /\ \A k \in 1..Len(out) :
                      out[k].line = n => out[k].id = "ANCHOR-006" /\ out[k].severity = "High"

C13_Witness ==
  /\ pc = "scanned"
  /\ LET fl == FileLines IN \E n, m \in 1..Len(fl) :
       /\ Declares(fl, n, "my_program") /\ Attached(fl, n) = {}
       /\ Declares(fl, m, "data") /\ DeclaredType(fl, m) = "UncheckedAccount<'info>"
       /\ \E a \in Attached(fl, m) : IsAttrLine(fl, a)
       /\ ~Vouched(fl, m)
       /\ FindingsAt(det_out[1], m) = 1
       /\ FindingsAt(det_out[1], n) = 0

(***************************************************************************)
(* C14: Detector B pairs fields of one block by base type                  *)
(***************************************************************************)
\* the block line n lies in: the number of derive markers at or above it
BlockOf(fl, n) ==
  Cardinality({a \in 1..n : \E k \in 1..Len(fl[a]) : fl[a][k] = MARKER})

\* line n declares an init_if_needed field that has a partner: another field
\* of its block, marked mut and not init_if_needed, of the same base type
HasMutPartner(fl, n) ==
  /\ DeclaresField(fl, n) /\ Carries(fl, n, "init_if_needed")
  /\ DeclaredBase(fl, n) # ""
  /\ \E m \in 1..Len(fl) :
       /\ m # n /\ DeclaresField(fl, m) /\ BlockOf(fl, m) = BlockOf(fl, n)
       /\ Carries(fl, m, "mut") /\ ~Carries(fl, m, "init_if_needed")
       /\ DeclaredBase(fl, m) = DeclaredBase(fl, n)

\* C14: in each block every init_if_needed field with a partner of the same
\* non-empty base type, marked mut and not init_if_needed, gets exactly one
\* finding ANCHOR-002 of severity Medium at its line; nothing else is
\* reported, so differing base types and fields of different blocks give
\* no finding.
C14_DuplicateMutable ==
  pc = "scanned" =>
    LET fl == FileLines
        out == det_out[1]
    IN /\ \A k \in 1..Len(out) : out[k].id = "ANCHOR-002" /\ out[k].severity = "Medium"
       /\ \A n \in 1..Len(fl) :
            FindingsAt(out, n) = IF HasMutPartner(fl, n) THEN 1 ELSE 0

(***************************************************************************)
(* C15: scan_directory on a missing path and on a single file              *)
(***************************************************************************)
\* what scan_file returns for the file: the detectors' findings under the
\* file's base name, one file scanned, score and summary of these findings
ScanFileFindings ==
  Flatten([p \in 1..Len(ALL_PATTERNS) |->
    IF <<1, p>> \in raised THEN <<>>
    ELSE PatternScan(p, "a.rs", files[1].content, hash_seed)])

ScanFileResult ==
  [target |-> "/abs/path", files_scanned |-> 1,
   patterns_checked |-> Len(ALL_PATTERNS), findings |-> ScanFileFindings,
   security_score |-> compute_security_score(ScanFileFindings),
   summary |-> compute_summary(ScanFileFindings)]

\* C15: scan_directory on a path that is neither a directory nor a file
\* raises and returns no report, while a completed scan without findings
\* returns a report with score A; on a path that is a file it returns what
\* scan_file returns for the file, and raises when scan_file raises.
C15_MissingPathAndSingleFile ==
  /\ (entry = "scan_directory" /\ target = "missing")
       => pc \in {"call", "raised"} /\ report = NoReport
  /\ (pc = "done" /\ report.findings = <<>>)
       => report.target # NoReport.target /\ report.security_score = "A"
  /\ (entry = "scan_directory" /\ target = "file" /\ pc = "done")
       => report = ScanFileResult
  /\ (entry = "scan_directory" /\ target = "file" /\ pc = "raised")
       => ~files[1].readable /\ report = NoReport

C15_Witness ==
  /\ entry = "scan_directory"
  /\ target = "missing"
  /\ pc = "raised"
  /\ report = NoReport

(***************************************************************************)
(* C16: unreadable files are skipped                                       *)
(***************************************************************************)
DirectoryCall == entry = "scan_directory" /\ target = "dir"

\* the findings of the readable files in discovery order, each under its
\* path relative to the root
ReadableFindings ==
  Flatten([f \in 1..Len(files) |->
    IF ~files[f].readable THEN <<>>
    ELSE Flatten([p \in 1..Len(ALL_PATTERNS) |->
           IF <<f, p>> \in raised THEN <<>>
           ELSE PatternScan(p, RelPath(f), files[f].content, hash_seed)])])

ExpectedSources ==
  {path \o d \o << f >> : <<d, f>> \in
     {x \in (DOMAIN tree) \X FileNames :
        /\ x[2] \in tree[x[1]]
        /\ x[2] \in {"lib.rs"}
        /\ \A k \in 1..Len(x[1]) : x[1][k] \notin {"target", "node_modules"}}}

\* C17: scan_directory scans exactly the source files under the root whose
\* relative path has no component named target or node_modules, whatever
\* the directories above the root are called.
C17_DirectoryExclusion ==
  pc = "discovered" =>
    /\ {rs_files[k] : k \in 1..Len(rs_files)} = ExpectedSources
    /\ Len(rs_files) = Cardinality(ExpectedSources)

(***************************************************************************)
(* C18, C19: the fallback of SemanticAnalyzer.analyze                      *)
(***************************************************************************)
AnalyzeReturned == pc = "idle" /\ calls > 0

\* an answer with which the live call fails: anything but well-formed findings
IsFailure(a) == a # "findings"

\* C18: analyze never raises; without API key it makes no live attempt and
\* returns the four pre-validated findings; with a key, when every attempt
\* of the call failed, it returns the four pre-validated findings, whose
\* source is validated.
C18_FallbackNeverRaises ==
  AnalyzeReturned =>
    /\ result.kind = "returned"
    /\ ~api_key => attempt = 0 /\ result.value = _PREVALIDATED_FINDINGS
    /\ (api_key /\ \A k \in 1..Len(answers) : IsFailure(answers[k]))
         => /\ result.value = _PREVALIDATED_FINDINGS
            /\ Len(result.value) = 4
            /\ \A k \in 1..Len(result.value) : result.value[k].source = "validated"

\* C19: after any sequence of analyze calls is_demo_mode is true exactly
\* when the most recent call returned the pre-validated list.
C19_DemoModeTracksLastCall ==
  (AnalyzeReturned /\ result.kind = "returned") =>
    (demo_mode <=> result.value = _PREVALIDATED_FINDINGS)

(***************************************************************************)
(* C20: generate_exploit prefers the built-in exploits                     *)
(***************************************************************************)
\* the first of the keywords collateral, withdraw, overflow that occurs in
\* the title whatever its case, "" when none does
FirstKeyword(title) ==
  CASE title \in {"Collateral check ignores existing debt", "overflow of collateral"}
         -> "collateral"
    [] title \in {"WITHDRAW drains the vault", "Integer Overflow in withdraw path"}
         -> "withdraw"
    [] OTHER -> ""

BuiltIn(keyword) ==
  CASE keyword = "collateral" -> "_EXPLOIT_COLLATERAL_BYPASS"
    [] keyword = "withdraw" -> "_EXPLOIT_WITHDRAW_DRAIN"
    [] keyword = "overflow" -> "_EXPLOIT_OVERFLOW_LIQUIDATION"

IsOrderedMatch(g) ==
  /\ \A k \in DOMAIN g :
       /\ sem_findings[g[k]].severity \in {"Critical", "High"}
       /\ exploits[k].finding_id = sem_findings[g[k]].id
       /\ exploits[k].title = sem_findings[g[k]].title
  /\ \A j, k \in DOMAIN g : j < k => g[j] < g[k]

\* C21: the exploits generate_all has collected belong, one to one and in
\* the order of the input, to findings of severity Critical or High; no
\* exploit belongs to a Medium or Low finding.
C21_OnlyCriticalAndHigh ==
  pc \in {"loop", "done", "raised"} =>
    \E g \in [1..Len(exploits) -> 1..Len(sem_findings)] : IsOrderedMatch(g)

C21_Witness ==
  /\ pc = "done"
  /\ Len(sem_findings) = 2
  /\ sem_findings[1].severity = "Medium"
  /\ sem_findings[1].title = "WITHDRAW drains the vault"
  /\ sem_findings[1].id = "SEM-001"
  /\ sem_findings[2].severity = "High"
  /\ sem_findings[2].id = "SEM-002"
  /\ Len(result.value) = 1
  /\ result.value[1].finding_id = "SEM-002"

(***************************************************************************)
(* C22: the context window of Detector A                                   *)
(***************************************************************************)
\* the line of the file that holds the chunk, 0 when none does
LineWith(fl, chunk) ==
  LET ns == {n \in 1..Len(fl) : \E k \in 1..Len(fl[n]) : fl[n][k] = chunk}
  IN IF ns = {} THEN 0 ELSE CHOOSE n \in ns : TRUE

Distance(a, b) == IF a < b THEN b - a ELSE a - b

\* C22: the attribute is not flagged exactly when the delegate constraint
\* and the close-authority constraint both stand at most 30 lines from the
\* line on which it starts, before or after it.
C22_WindowOfThirtyLines ==
  pc = "scanned" =>
    LET fl == FileLines
        at == LineWith(fl, "init_if_needed")
        dl == LineWith(fl, "constraint = t.delegate.is_none()")
        cl == LineWith(fl, "constraint = t.close_authority.is_none()")
    IN (at # 0 /\ dl # 0 /\ cl # 0) =>
         (FindingsAt(det_out[1], at) = 0 <=> (Distance(at, dl) <= 30 /\ Distance(at, cl) <= 30))

(***************************************************************************)
(* C23: the signer marker of a resize payer                                *)
(***************************************************************************)
\* C23: when the one declaration of the payer has an account attribute with
\* a signer marker, wherever the marker stands in it, the directive is not
\* flagged; when signer occurs only in a doc comment of the payer, or not
\* at all, it is flagged once.
C23_SignerMarkerSuppresses ==
  pc = "scanned" =>
    LET fl == FileLines
        out == det_out[1]
        decls == {n \in 1..Len(fl) : Declares(fl, n, "payer")}
    IN \A n \in 1..Len(fl) :
         (DirectivePayer(fl, n) = "payer" /\ Cardinality(decls) = 1) =>
           LET d == CHOOSE x \in decls : TRUE
           IN FindingsAt(out, n) = IF CarriesSigner(fl, d) THEN 0 ELSE 1

(***************************************************************************)
(* C24: Detector F and the attributes of the field itself                  *)
(***************************************************************************)
\* line n goes on with an attribute opened on a line above and not yet closed
RECURSIVE IsContinuation(_, _)
IsContinuation(fl, n) ==
  /\ n > 1
  /\ ~IsAttrLine(fl, n)
  /\ (\E k \in 1..Len(fl[n - 1]) : fl[n - 1][k] = ATTR_OPEN) \/ IsContinuation(fl, n - 1)
  /\ \A k \in 1..Len(fl[n - 1]) : fl[n - 1][k] # ATTR_CLOSE

\* the attribute and doc lines of the field on the line below n: the lines
\* above it up to the previous declaration, blank lines included
RECURSIVE OwnLinesFrom(_, _)
OwnLinesFrom(fl, n) ==
  IF n < 1 THEN {}
  ELSE IF \/ IsAttrLine(fl, n) \/ IsDocLine(fl, n) \/ IsContinuation(fl, n)
          \/ Strip(fl[n]) = <<>>
       THEN {n} \cup OwnLinesFrom(fl, n - 1)
  ELSE {}

OwnVouched(fl, n) ==
  \E a \in OwnLinesFrom(fl, n - 1) : \E k \in 1..Len(fl[a]) :
     fl[a][k] \in {"signer", "owner = crate::ID", "/// CHECK: safe"}

\* C24: a raw-handle field is not flagged when the attribute and doc lines
\* attached to it, an attribute spread over several lines and lines
\* separated from the field by a blank line included, hold a signer marker,
\* an owner constraint or a CHECK comment; it is flagged once when only
\* the lines of another field hold one.
C24_OwnAttributesSuppress ==
  pc = "scanned" =>
    LET fl == FileLines
        out == det_out[1]
    IN \A n \in 1..Len(fl) :
         (Declares(fl, n, "data") /\ ~IsContinuation(fl, n)) =>
           FindingsAt(out, n) = IF OwnVouched(fl, n) THEN 0 ELSE 1

(***************************************************************************)
(* C25: the context window of Detector D                                   *)
(***************************************************************************)
\* the lines that hold a signer marker, an owner constraint or a CHECK comment
VouchingAt(fl) ==
  {n \in 1..Len(fl) : \E k \in 1..Len(fl[n]) :
     fl[n][k] \in {"signer", "owner = crate::ID", "/// CHECK: safe"}}

\* C25: a raw-handle field named data gets exactly one finding ANCHOR-004 of
\* severity Medium when no signer marker, owner constraint or CHECK comment
\* stands within 10 lines before or after its line, and none when one does.
C25_WindowOfTenLines ==
  pc = "scanned" =>
    LET fl == FileLines
        out == det_out[1]
    IN /\ \A k \in 1..Len(out) : out[k].id = "ANCHOR-004" /\ out[k].severity = "Medium"
       /\ \A n \in 1..Len(fl) :
            (Declares(fl, n, "data") /\ DeclaredType(fl, n) \in RawHandleTypes) =>
              FindingsAt(out, n) =
                IF \E a \in VouchingAt(fl) : Distance(a, n) <= 10 THEN 0 ELSE 1

(***************************************************************************)
(* C26: line numbers of fields and findings                                *)
(***************************************************************************)
\* line n of the file declares a field
DeclaresAny(fl, n) ==
  /\ n \in 1..Len(fl)
  /\ ~IsCommentLine(fl, n) /\ ~IsAttrLine(fl, n) /\ ~IsDocLine(fl, n)
  /\ \E k \in 1..Len(fl[n]) : ColonName(fl[n][k]) # ""

\* C26: wherever the header of a block stands relative to its marker, the
\* line of every StructField parsed from the block is the line of the file
\* that declares the field of that name, the line of every finding
\* ANCHOR-003 is a line that holds a resize directive, and the line of every
\* finding ANCHOR-002, 004, 005 and 006 is a line that declares a field.
C26_TrueSourceLines ==
  pc = "blocks" =>
    LET fl == FileLines
    IN /\ \A b \in 1..Len(blocks) :
            LET fs == parse_struct_fields(blocks[b].body, blocks[b].start_line)
            IN \A k \in 1..Len(fs) :
                 fs[k].line \in 1..Len(fl) /\ Declares(fl, fs[k].line, fs[k].name)
       /\ \A p \in 1..Len(det_out) : \A k \in 1..Len(det_out[p]) :
            LET f == det_out[p][k]
            IN IF f.id = "ANCHOR-003"
               THEN f.line \in 1..Len(fl) /\ DirectivePayer(fl, f.line) # ""
               ELSE DeclaresAny(fl, f.line)

(***************************************************************************)
(* C27: line comments in a block body                                      *)
(***************************************************************************)
\* C27: reading a line comment (// and not ///) outside a multi-line
\* attribute emits no StructField, whatever the text of the comment, and
\* leaves the pending attributes as they are.
C27_CommentLinesInert ==
  [][(/\ Len(lines') = Len(lines) + 1
      /\ ~in_attr
      /\ StartsWithComment(Strip(lines'[Len(lines')]))
      /\ ~StartsWithDoc(Strip(lines'[Len(lines')])))
       => (fields' = fields /\ current_attrs' = current_attrs)]_vars

(***************************************************************************)
(* C28: the header paired with a marker                                    *)
(***************************************************************************)
\* the header that immediately follows position k: the index of the first
\* chunk from k on that is not whitespace, a doc line or part of an
\* annotation, when that chunk is a header, and 0 otherwise
RECURSIVE ImmediateHeader(_, _, _)
ImmediateHeader(text, k, in_annotation) ==
  IF k > Len(text) THEN 0
  ELSE IF in_annotation
       THEN ImmediateHeader(text, k + 1, text[k] # ATTR_CLOSE)
  ELSE IF text[k] = ATTR_OPEN THEN ImmediateHeader(text, k + 1, TRUE)
  ELSE IF text[k] \in {SP, NL} \cup DocChunks THEN ImmediateHeader(text, k + 1, FALSE)
  ELSE IF IsHeader(text[k]) THEN k
  ELSE 0

\* the markers whose header follows immediately and opens a body that closes
PairedMarkers(text) ==
  {m \in 1..Len(text) :
     /\ text[m] = MARKER
     /\ LET h == ImmediateHeader(text, m + 1, FALSE)
        IN /\ h # 0
           /\ \E b \in (h + 1)..Len(text) :
                /\ text[b] = OPEN_BRACE
                /\ \A c \in (h + 1)..(b - 1) : text[c] # OPEN_BRACE
                /\ MatchingClose(text, b) # 0}

\* C28: one block is returned for each marker that is followed, with
\* nothing but whitespace, annotations and doc lines between, by a header
\* whose body closes, none for a marker followed by other code, and never
\* more blocks than the text has headers.
C28_MarkerPairsWithNextHeader ==
  pc = "blocks" =>
    /\ Len(blocks) = Cardinality(PairedMarkers(content))
    /\ Len(blocks) <= Cardinality({h \in 1..Len(content) : IsHeader(content[h])})

(***************************************************************************)
(* C29: the retries of one analyze call                                    *)
(***************************************************************************)
\* C29: a call with an API key makes at most 3 live attempts; it has waited
\* once after every attempt that was followed by another, 2 and then 4, and
\* not after its last attempt; no attempt follows one that gave findings;
\* and it returns the pre-validated list only after 3 failed attempts.
C29_BoundedRetry ==
  api_key =>
    /\ attempt <= 3 /\ Len(answers) = attempt
    /\ \A k \in 1..(Len(answers) - 1) : IsFailure(answers[k])
    /\ pc = "attempt" =>
         /\ sleeps = SubSeq(<< 2, 4 >>, 1, attempt)
         /\ \A k \in 1..Len(answers) : IsFailure(answers[k])
    /\ AnalyzeReturned =>
         /\ sleeps = SubSeq(<< 2, 4 >>, 1, attempt - 1)
         /\ result.value = _PREVALIDATED_FINDINGS
              => attempt = 3 /\ \A k \in 1..3 : IsFailure(answers[k])

C29_Witness ==
  /\ api_key
  /\ AnalyzeReturned
  /\ attempt = 3
  /\ sleeps = << 2, 4 >>
  /\ result.value = _PREVALIDATED_FINDINGS

(***************************************************************************)
(* C30: the requests of one _api_get call                                  *)
(***************************************************************************)
\* C30: every call of _api_get comes to its end, whatever the server
\* answers to its requests.
C30_ApiGetTerminates == (pc = "request") ~> (pc = "idle")

====
